---- MODULE Spec2Model ----
(***************************************************************************)
(* State-machine model of the POSIX threading wrappers of                  *)
(* de::Koesling::Threading: Mutex, Condition, Semaphore and RW_Lock.       *)
(*                                                                         *)
(* Every primitive has its own specification (SpecMutex, SpecCond, ...).   *)
(* A thread is a client of one object; it advances in steps, each step     *)
(* being one access to a shared field or one native (pthread/sem) call,    *)
(* so that the interleavings of the unsynchronised bookkeeping fields are  *)
(* all explored.  pc[t] is the <<method, position>> of thread t.            *)
(***************************************************************************)
EXTENDS Integers, FiniteSets, Sequences, TLC

\* ------------------------------------------------------------------ bounds
\* number of client threads of the Mutex
MutexThreads == 2
\* increments of the shared counter each thread performs (K of the claim)
MaxIncrements == 2
\* number of client threads of the Condition
CondThreads == 3
\* max_value the Semaphore is constructed with (M of the claims)
SemMaxValue == 1
\* number of client threads of the Semaphore, more than SemMaxValue
SemThreads == 2
\* number of client threads of the RW_Lock
RWThreads == 2
\* number of native threads one Thread object creates
MaxStarts == 2
\* largest small number of seconds in a duration and in a clock reading; the
\* durations also come that close to the largest time_t
MaxSeconds == 1
\* signal() calls that return true in a counted run
MaxSignals == 2

\* ------------------------------------------------------------ constants
\* Mutex::Mutex initialises lock_thread(0): the id no thread has
NoThread == 0
\* The unsigned counters (unsigned int current_value and thread_queue, size_t
\* read_locked) are held as their bit pattern read in two's complement: the
\* pattern of all ones, the largest unsigned value, is -1, and it is what
\* decrementing 0 gives.
UnsignedMax == -1
\* defines.hpp (part_005: #define NSEC_PER_SEC 1000000000, NSEC_PER_USEC 1000)
NSEC_PER_SEC == 1000000000
NSEC_PER_USEC == 1000
\* time_t, the type of tv_sec, is a signed integer; it has the 32 bits of the
\* ILP32 Linux ABIs here, and TIME_MAX is its largest value.  With 64 bits the
\* same sums leave the type at 2^63.  tv_nsec and tv_usec are long: no sum of
\* in-range values leaves 32 bits.
TIME_MAX == 2147483647

VARIABLES
    pc,            \* per thread: <<method, position>>, or <<"ret", outcome>> between calls
    reg,           \* per thread: the value it loaded for a read-modify-write (++ / --)
    \* ---- Mutex (Mutex.hpp private members)
    mutex,         \* pthread_mutex_t: the owning thread, NoThread when free
    lock_thread,   \* volatile pthread_t lock_thread
    locked,        \* volatile bool locked
    \* ---- client of the Mutex: the counter workload
    holds,         \* per thread: a lock variant returned success, unlock not yet returned
    counter,       \* the shared counter the critical sections increment
    tmp,           \* per thread: the counter value it read
    iters,         \* per thread: increments completed
    \* ---- Condition (Condition.hpp private members)
    cond_mutex,           \* pthread_mutex_t mutex: the owning thread, NoThread when free
    signal_created,       \* volatile bool signal_created
    waiting_thread_count, \* volatile size_t waiting_thread_count
    wakeup_by_brodcast,   \* volatile bool wakeup_by_brodcast
    \* ---- observer of the Condition
    scn,           \* the last signal()/broadcast() that found waiters, and what followed it
    \* ---- Semaphore (Semaphore.hpp private members)
    sem,             \* sem_t sem: the value of the native semaphore
    locking_threads, \* std::unordered_map<pthread_t, bool>: per thread "true", "false", or NoEntry
    map_seen,        \* per thread inside an insertion into the map: the keys it found there
    current_value,   \* volatile unsigned int current_value
    thread_queue,    \* volatile unsigned int thread_queue
    \* ---- client of the Semaphore
    permit,        \* per thread: an acquire returned success, release() not yet called
    \* ---- RW_Lock (RW_Lock.hpp private members)
    rw_lock,       \* pthread_rwlock_t: [w |-> the writing thread or NoThread, r |-> the reading threads]
    read_locked,   \* volatile size_t read_locked
    write_locked,  \* volatile bool write_locked
    \* ---- client of the RW_Lock
    rdheld,        \* per thread: a read acquisition returned success, unlock() not yet called
    wrheld,        \* per thread: a write acquisition returned success, unlock() not yet called
    \* ---- Thread (Thread.hpp private members)
    thread_id,     \* pthread_t thread_id: the number of the native thread, 0 before start()
    running,       \* bool running
    detachstate,   \* detachstate_t detachstate: "JOINABLE" or "DETACHED"
    attributes,    \* pthread_attr_t attributes: the detach state threads are created with
    \* ---- the system under the Thread
    created,       \* number of native threads created so far
    native,        \* per native thread: [state, detached, cancel, signalled]
    \* ---- pthread_timeout(ts) and the deadline of Thread::timed_join(time)
    time,          \* const timespec& ts / time: the duration, [tv_sec, tv_nsec]
    current_time,  \* struct timeval current_time as gettimeofday fills it: [tv_sec, tv_usec]
    timeout_time   \* struct timespec timeout_time: the deadline, [tv_sec, tv_nsec]

mvars == <<mutex, lock_thread, locked, holds, counter, tmp, iters>>
cvars == <<cond_mutex, signal_created, waiting_thread_count, wakeup_by_brodcast, scn>>
svars == <<sem, locking_threads, map_seen, current_value, thread_queue, permit>>
rvars == <<rw_lock, read_locked, write_locked, rdheld, wrheld>>
tvars == <<thread_id, running, detachstate, attributes, created, native>>
dvars == <<time, current_time, timeout_time>>
vars == <<pc, reg, mvars, cvars, svars, rvars, tvars, dvars>>

\* what the methods of one object leave alone: the other objects (and reg,
\* for the objects whose methods load nothing into it)
mframe == <<reg, cvars, svars, rvars, tvars, dvars>>
cframe == <<reg, mvars, svars, rvars, tvars, dvars>>
sframe == <<mvars, cvars, rvars, tvars, dvars>>
rframe == <<mvars, cvars, svars, tvars, dvars>>
tframe == <<reg, mvars, cvars, svars, rvars, dvars>>

MThreads == 1..MutexThreads
CThreads == 1..CondThreads
SThreads == 1..SemThreads
RThreads == 1..RWThreads
\* the thread that owns the Thread object and calls its methods
TCallers == {1}

\* no entry for the thread in locking_threads
NoEntry == "none"

\* -------------------------------------------------- the constructed objects

\* no signal()/broadcast() observed yet
NoScenario == [kind |-> "none", clean |-> FALSE, S |-> {}, n |-> 0, done |-> {}, late |-> FALSE]

\* Mutex::Mutex
InitMutex ==
    /\ mutex = NoThread
    /\ lock_thread = NoThread
    /\ locked = FALSE
    /\ holds = [t \in MThreads |-> FALSE]
    /\ counter = 0
    /\ tmp = [t \in MThreads |-> 0]
    /\ iters = [t \in MThreads |-> 0]

\* Condition::Condition
InitCondition ==
    /\ cond_mutex = NoThread
    /\ signal_created = FALSE
    /\ waiting_thread_count = 0
    /\ wakeup_by_brodcast = FALSE
    /\ scn = NoScenario

\* Semaphore::Semaphore(value): max_value(value), thread_queue(0) and sem_init;
\* current_value has no initialiser, v is what the storage happens to hold
InitSemaphore(v) ==
    /\ sem = SemMaxValue
    /\ locking_threads = [t \in SThreads |-> NoEntry]
    /\ map_seen = [t \in SThreads |-> {}]
    /\ current_value = v
    /\ thread_queue = 0
    /\ permit = [t \in SThreads |-> FALSE]

\* RW_Lock::RW_Lock
InitRW_Lock ==
    /\ rw_lock = [w |-> NoThread, r |-> {}]
    /\ read_locked = 0
    /\ write_locked = FALSE
    /\ rdheld = [t \in RThreads |-> FALSE]
    /\ wrheld = [t \in RThreads |-> FALSE]

\* a native thread that has not been created
NoNative == [state |-> "none", detached |-> FALSE, cancel |-> FALSE, signalled |-> FALSE]

\* Thread::Thread(function) (d = "JOINABLE") and Thread::Thread(function,
\* detachstate) or Thread::Thread(function, attributes) with detach state d
InitThread(d) ==
    /\ thread_id = 0
    /\ running = FALSE
    /\ detachstate = d
    /\ attributes = d
    /\ created = 0
    /\ native = [i \in 1..MaxStarts |-> NoNative]

\* ---- pthread_timeout.cpp

\* the durations handed to the timed operations: tv_sec negative, small, and
\* up to the largest time_t; tv_nsec around both ends of [0, NSEC_PER_SEC)
Timespecs ==
    [tv_sec  : (-1 .. MaxSeconds) \cup {TIME_MAX - s : s \in 0 .. MaxSeconds},
     tv_nsec : {-1, 0, 1, NSEC_PER_SEC - NSEC_PER_USEC, NSEC_PER_SEC - 1, NSEC_PER_SEC}]

\* the readings of gettimeofday: 0 <= tv_usec < 1000000
Timevals ==
    [tv_sec  : 0 .. MaxSeconds,
     tv_usec : {0, 1, (NSEC_PER_SEC \div NSEC_PER_USEC) - 1}]

\* the negation of `ts.tv_sec < 0 || ts.tv_nsec < 0 || ts.tv_nsec >= NSEC_PER_SEC`
ValidTimespec(ts) == ~(ts.tv_sec < 0 \/ ts.tv_nsec < 0 \/ ts.tv_nsec >= NSEC_PER_SEC)

\* a + b in time_t for b >= 0.  A sum above TIME_MAX is a signed overflow; the
\* add instruction leaves the sum less 2^32
time_t_add(a, b) ==
    IF a > TIME_MAX - b THEN (a - TIME_MAX - 1) + (b - TIME_MAX - 1) ELSE a + b

\* pthread_timeout(ts) past its test of ts, with now the reading of
\* gettimeofday: the sums, then the carry
pthread_timeout(ts, now) ==
    LET tv_sec  == time_t_add(ts.tv_sec, now.tv_sec)
        tv_nsec == ts.tv_nsec + now.tv_usec * NSEC_PER_USEC
    IN  IF tv_nsec >= NSEC_PER_SEC
        THEN [tv_sec |-> time_t_add(tv_sec, 1), tv_nsec |-> tv_nsec - NSEC_PER_SEC]
        ELSE [tv_sec |-> tv_sec, tv_nsec |-> tv_nsec]

\* the same computation as Thread::timed_join(time) writes it out
Thread_timed_join_timeout_time(ts, now) ==
    LET sum == [tv_sec  |-> time_t_add(ts.tv_sec, now.tv_sec),
                tv_nsec |-> ts.tv_nsec + now.tv_usec * NSEC_PER_USEC]
    IN  IF sum.tv_nsec >= NSEC_PER_SEC
        THEN [tv_sec |-> time_t_add(sum.tv_sec, 1), tv_nsec |-> sum.tv_nsec - NSEC_PER_SEC]
        ELSE sum

\* no timed operation has been called
NoTimespec == [tv_sec |-> 0, tv_nsec |-> 0]
NoTimeout ==
    /\ time = NoTimespec
    /\ current_time = [tv_sec |-> 0, tv_usec |-> 0]
    /\ timeout_time = NoTimespec

\* the threads of a specification, all outside any call
InitThreads(T) ==
    /\ pc = [t \in T |-> <<"ret", "none">>]
    /\ reg = [t \in T |-> 0]

\* a thread between two calls: it has returned from (or was thrown out of) its
\* last call with the outcome pc[t][2] ("none" before its first call)
AtRest(t) == pc[t][1] = "ret"

\* the thread returns from (or throws out of) its call with outcome r
Return(t, r) == pc' = [pc EXCEPT ![t] = <<"ret", r>>]

Goto(t, m, p) == pc' = [pc EXCEPT ![t] = <<m, p>>]

\* =========================================================================
\*                                 Mutex
\* =========================================================================

\* `if (locked && ...` : the read of locked, first operand of the check that
\* opens lock(), trylock() and timedlock()
Mutex_chk_locked(t, m) ==
    /\ AtRest(t)
    /\ IF locked THEN Goto(t, m, "chk_owner") ELSE Goto(t, m, "native")
    /\ UNCHANGED <<mvars, mframe>>

\* mutant: the double-lock check never throws
Mutex_chk_owner_never_throws(t, m) ==
    /\ pc[t] = <<m, "chk_owner">>
    /\ Goto(t, m, "native")
    /\ UNCHANGED <<mvars, mframe>>

\* mutant: the double-lock check does not compare lock_thread
Mutex_chk_owner_any_thread(t, m) ==
    /\ pc[t] = <<m, "chk_owner">>
    /\ Return(t, "DoubleLock")
    /\ UNCHANGED <<mvars, mframe>>

\* `... && lock_thread == pthread_self( )) throw std::logic_error(DOUBLE_LOCK)`
Mutex_chk_owner(t, m) ==
    /\ pc[t] = <<m, "chk_owner">>
    /\ IF lock_thread = t THEN Return(t, "DoubleLock") ELSE Goto(t, m, "native")
    /\ UNCHANGED <<mvars, mframe>>

\* pthread_mutex_lock: blocks until the native mutex is free, then takes it
Mutex_lock_native(t) ==
    /\ pc[t] = <<"lock", "native">>
    /\ mutex = NoThread
    /\ mutex' = t
    /\ Goto(t, "lock", "set_owner")
    /\ UNCHANGED <<mframe, lock_thread, locked, holds, counter, tmp, iters>>

\* mutant: EBUSY is not told from success, the caller goes on as the owner
Mutex_trylock_native_ignores_busy(t) ==
    /\ pc[t] = <<"trylock", "native">>
    /\ mutex' = IF mutex = NoThread THEN t ELSE mutex
    /\ Goto(t, "trylock", "set_owner")
    /\ UNCHANGED <<mframe, lock_thread, locked, holds, counter, tmp, iters>>

\* pthread_mutex_trylock: takes the free mutex, EBUSY (return false) otherwise
Mutex_trylock_native(t) ==
    /\ pc[t] = <<"trylock", "native">>
    /\ IF mutex = NoThread
       THEN /\ mutex' = t
            /\ Goto(t, "trylock", "set_owner")
       ELSE /\ Return(t, "false")
            /\ UNCHANGED mutex
    /\ UNCHANGED <<mframe, lock_thread, locked, holds, counter, tmp, iters>>

\* `pthread_timeout(time)`, which throws std::invalid_argument for a time out
\* of range, then pthread_mutex_timedlock: takes the mutex when it is free
\* before the deadline; ETIMEDOUT (return false) can only happen while it is
\* held
Mutex_timedlock_native(t) ==
    /\ pc[t] = <<"timedlock", "native">>
    /\ IF ~ValidTimespec(time)
       THEN /\ Return(t, "invalid_argument")
            /\ UNCHANGED mutex
       ELSE \/ /\ mutex = NoThread
               /\ mutex' = t
               /\ Goto(t, "timedlock", "set_owner")
            \/ /\ mutex # NoThread
               /\ Return(t, "false")
               /\ UNCHANGED mutex
    /\ UNCHANGED <<mframe, lock_thread, locked, holds, counter, tmp, iters>>

\* `lock_thread = pthread_self( );`
Mutex_set_owner(t, m) ==
    /\ pc[t] = <<m, "set_owner">>
    /\ lock_thread' = t
    /\ Goto(t, m, "set_locked")
    /\ UNCHANGED <<mframe, mutex, locked, holds, counter, tmp, iters>>

\* `locked = true;` and the return (true for trylock/timedlock)
Mutex_set_locked(t, m) ==
    /\ pc[t] = <<m, "set_locked">>
    /\ locked' = TRUE
    /\ holds' = [holds EXCEPT ![t] = TRUE]
    /\ Return(t, "ok")
    /\ UNCHANGED <<mframe, mutex, lock_thread, counter, tmp, iters>>

Mutex_lock(t) ==
    \/ Mutex_chk_locked(t, "lock")
    \/ Mutex_chk_owner(t, "lock")
    \/ Mutex_lock_native(t)
    \/ Mutex_set_owner(t, "lock")
    \/ Mutex_set_locked(t, "lock")

Mutex_trylock(t) ==
    \/ Mutex_chk_locked(t, "trylock")
    \/ Mutex_chk_owner(t, "trylock")
    \/ Mutex_trylock_native(t)
    \/ Mutex_set_owner(t, "trylock")
    \/ Mutex_set_locked(t, "trylock")

Mutex_timedlock(t) ==
    \/ Mutex_chk_locked(t, "timedlock")
    \/ Mutex_chk_owner(t, "timedlock")
    \/ Mutex_timedlock_native(t)
    \/ Mutex_set_owner(t, "timedlock")
    \/ Mutex_set_locked(t, "timedlock")

\* `if (!locked) throw std::logic_error(MUTEX_NOT_LOCKED);`
Mutex_unlock_chk_locked(t) ==
    /\ AtRest(t)
    /\ IF ~locked THEN Return(t, "NotLocked") ELSE Goto(t, "unlock", "chk_owner")
    /\ UNCHANGED <<mvars, mframe>>

\* mutant: unlock() without the owner check
Mutex_unlock_chk_owner_skipped(t) ==
    /\ pc[t] = <<"unlock", "chk_owner">>
    /\ Goto(t, "unlock", "clear")
    /\ UNCHANGED <<mvars, mframe>>

\* `if (pthread_self( ) != lock_thread) throw std::logic_error(LOCKING_THREAD_MISSMATCH);`
Mutex_unlock_chk_owner(t) ==
    /\ pc[t] = <<"unlock", "chk_owner">>
    /\ IF t # lock_thread THEN Return(t, "OwnerMismatch") ELSE Goto(t, "unlock", "clear")
    /\ UNCHANGED <<mvars, mframe>>

\* mutant: unlock() leaves locked alone before the native release
Mutex_unlock_clear_late(t) ==
    /\ pc[t] = <<"unlock", "clear">>
    /\ Goto(t, "unlock", "native")
    /\ UNCHANGED <<mvars, mframe>>

\* `locked = false;` before the native release
Mutex_unlock_clear(t) ==
    /\ pc[t] = <<"unlock", "clear">>
    /\ locked' = FALSE
    /\ Goto(t, "unlock", "native")
    /\ UNCHANGED <<mframe, mutex, lock_thread, holds, counter, tmp, iters>>

\* pthread_mutex_unlock by the owner of the native mutex, and the return
Mutex_unlock_native(t) ==
    /\ pc[t] = <<"unlock", "native">>
    /\ mutex = t
    /\ mutex' = NoThread
    /\ holds' = [holds EXCEPT ![t] = FALSE]
    /\ Return(t, "ok")
    /\ UNCHANGED <<mframe, lock_thread, locked, counter, tmp, iters>>

Mutex_unlock(t) ==
    \/ Mutex_unlock_chk_locked(t)
    \/ Mutex_unlock_chk_owner(t)
    \/ Mutex_unlock_clear(t)
    \/ Mutex_unlock_native(t)

\* the client's critical section: read the shared counter ...
CounterRead(t) ==
    /\ AtRest(t)
    /\ holds[t]
    /\ iters[t] < MaxIncrements
    /\ tmp' = [tmp EXCEPT ![t] = counter]
    /\ Goto(t, "cs", "write")
    /\ UNCHANGED <<mframe, mutex, lock_thread, locked, holds, counter, iters>>

\* ... and write it back incremented
CounterWrite(t) ==
    /\ pc[t] = <<"cs", "write">>
    /\ counter' = tmp[t] + 1
    /\ tmp' = [tmp EXCEPT ![t] = 0]
    /\ iters' = [iters EXCEPT ![t] = @ + 1]
    /\ Return(t, "ok")
    /\ UNCHANGED <<mframe, mutex, lock_thread, locked, holds>>

InitM ==
    /\ InitThreads(MThreads)
    /\ InitMutex
    /\ InitCondition
    /\ InitSemaphore(0)
    /\ InitRW_Lock
    /\ InitThread("JOINABLE")
    /\ NoTimeout

NextM ==
    \E t \in MThreads :
        \/ Mutex_lock(t)
        \/ Mutex_trylock(t)
        \/ Mutex_timedlock(t)
        \/ Mutex_unlock(t)
        \/ CounterRead(t)
        \/ CounterWrite(t)

SpecMutex == InitM /\ [][NextM]_vars

\* ---- Mutex: failing native calls and the destructor

\* pthread_mutex_unlock fails (temp != 0): the mutex stays with its owner,
\* `locked = true;` and sysexcept throws std::system_error
Mutex_unlock_native_fails(t) ==
    /\ pc[t] = <<"unlock", "native">>
    /\ locked' = TRUE
    /\ Return(t, "SystemError")
    /\ UNCHANGED <<mframe, mutex, lock_thread, holds, counter, tmp, iters>>

\* destructor_exception_terminate(e, *error_stream, EX_OSERR): the error is
\* written to the error stream and the process ends, with all its threads
Terminate == pc' = [u \in DOMAIN pc |-> <<"exit", "EX_OSERR">>]

\* ~Mutex, first part: `if (locked)` { try { unlock( ); } ... }, taken as one
\* step.  A std::logic_error of unlock() (the caller is not lock_thread) goes
\* to destructor_exception_continue: it is written to the error stream and
\* the destructor goes on; a std::system_error of unlock() goes to
\* destructor_exception_terminate, which ends the process with EX_OSERR.
Mutex_dtor_unlock(t) ==
    /\ AtRest(t)
    /\ IF ~locked
       THEN /\ Goto(t, "~Mutex", "destroy")
            /\ UNCHANGED <<mutex, locked, holds>>
       ELSE IF lock_thread # t
       THEN /\ Goto(t, "~Mutex", "destroy_logged")
            /\ UNCHANGED <<mutex, locked, holds>>
       ELSE IF mutex = t
       THEN /\ locked' = FALSE
            /\ mutex' = NoThread
            /\ holds' = [holds EXCEPT ![t] = FALSE]
            /\ Goto(t, "~Mutex", "destroy")
       ELSE /\ Terminate
            /\ UNCHANGED <<mutex, locked, holds>>
    /\ UNCHANGED <<mframe, lock_thread, counter, tmp, iters>>

\* ~Mutex, second part: pthread_mutex_destroy(&mutex).  On a free mutex it
\* succeeds.  On a locked mutex its behaviour is undefined: it reports EBUSY
\* (glibc), which sysexcept throws as std::system_error and
\* destructor_exception_terminate ends the process on, or it returns 0.  The
\* thread that has destroyed the Mutex makes no further call.
Mutex_dtor_destroy(t) ==
    /\ pc[t] \in {<<"~Mutex", "destroy">>, <<"~Mutex", "destroy_logged">>}
    /\ \E busy \in BOOLEAN :
          IF mutex # NoThread /\ busy THEN Terminate ELSE Goto(t, "~Mutex", "destroyed")
    /\ UNCHANGED <<mvars, mframe>>

\* the Mutex with its system errors and its destructor
NextMSys ==
    \/ NextM
    \/ \E t \in MThreads :
          \/ Mutex_unlock_native_fails(t)
          \/ Mutex_dtor_unlock(t)
          \/ Mutex_dtor_destroy(t)

SpecMutexSys == InitM /\ [][NextMSys]_vars

\* ------------------------------------------------------- Mutex: properties

\* thread a is the holder: a lock variant of a returned success and a has not
\* called unlock() since
Owner(a) == holds[a] /\ pc[a][1] # "unlock"

\* C1: mutual exclusion of the Mutex.  At most one thread is between the
\* successful return of lock()/trylock()/timedlock() and the return of its
\* unlock(), and when every thread has made its MaxIncrements increments of
\* the shared counter inside lock/unlock, the counter is exactly
\* MutexThreads * MaxIncrements (no update is lost).
C1_MutualExclusion ==
    /\ Cardinality({t \in MThreads : holds[t]}) <= 1
    /\ \A t \in MThreads : pc[t][1] = "cs" => holds[t] /\ mutex = t
    /\ (\A t \in MThreads : iters[t] = MaxIncrements)
          => counter = MutexThreads * MaxIncrements

\* every thread has finished its increments and released the Mutex
C1_Witness ==
    /\ \A t \in MThreads : iters[t] = MaxIncrements /\ AtRest(t) /\ ~holds[t]
    /\ counter = MutexThreads * MaxIncrements
    /\ mutex = NoThread

\* C9: double-lock detection.  A thread that holds the Mutex and calls lock()
\* or trylock() never reaches the native lock call (so it cannot block): it
\* is thrown out with DoubleLock, and locked, lock_thread and the native
\* mutex are as before, the caller still being the owner.
C9_DoubleLock ==
    /\ [](\A t \in MThreads :
            holds[t] /\ pc[t][1] \in {"lock", "trylock"}
              => pc[t][2] = "chk_owner" /\ locked /\ lock_thread = t /\ mutex = t)
    /\ [][\A t \in MThreads :
            holds[t] /\ pc[t][1] \in {"lock", "trylock"} /\ pc'[t] # pc[t]
              => /\ pc'[t] = <<"ret", "DoubleLock">>
                 /\ locked' /\ lock_thread' = t /\ mutex' = t /\ holds'[t]]_vars

\* the owner has been thrown out of a second lock()/trylock()
C9_Witness ==
    \E t \in MThreads :
        /\ pc[t] = <<"ret", "DoubleLock">>
        /\ holds[t] /\ locked /\ lock_thread = t /\ mutex = t

\* thread b takes a step of unlock()
UnlockStep(b) ==
    /\ pc'[b] # pc[b]
    /\ \/ pc[b][1] = "unlock"
       \/ AtRest(b) /\ (pc'[b][1] = "unlock" \/ pc'[b] = <<"ret", "NotLocked">>)

\* C10: unlock misuse.  While thread a holds the Mutex, unlock() called by
\* another thread b only gets as far as the owner check and is thrown out
\* with OwnerMismatch; locked stays true, the owner stays a and the native
\* mutex is not released.  unlock() called while locked is false is thrown
\* out with NotLocked and changes nothing.
C10_UnlockMisuse ==
    /\ [](\A a, b \in MThreads :
            a # b /\ Owner(a) /\ pc[b][1] = "unlock" => pc[b][2] = "chk_owner")
    /\ [][\A a, b \in MThreads :
            a # b /\ Owner(a) /\ UnlockStep(b)
              => /\ pc'[b] \in {<<"unlock", "chk_owner">>, <<"ret", "OwnerMismatch">>}
                 /\ pc[b][1] = "unlock" => pc'[b] = <<"ret", "OwnerMismatch">>
                 /\ locked' /\ lock_thread' = a /\ mutex' = a /\ holds'[a]]_vars
    /\ [][\A b \in MThreads :
            AtRest(b) /\ ~locked /\ UnlockStep(b)
              => pc'[b] = <<"ret", "NotLocked">> /\ UNCHANGED mvars]_vars

\* b was thrown out of unlock() with OwnerMismatch while a holds the Mutex
C10_Witness ==
    \E a, b \in MThreads :
        /\ a # b
        /\ Owner(a) /\ locked /\ lock_thread = a /\ mutex = a
        /\ pc[b] = <<"ret", "OwnerMismatch">>

\* ------------------------------------------- Mutex: the older Mutex.cpp

\* The older copy of Mutex.cpp has the same constructor, lock(), trylock()
\* and unlock(); its timedlock() opens with the computation of the deadline
\* (pthread_timeout), without the double-lock check.
Mutex_old_timedlock_call(t) ==
    /\ AtRest(t)
    /\ IF ~ValidTimespec(time)
       THEN Return(t, "invalid_argument")
       ELSE Goto(t, "timedlock", "native")
    /\ UNCHANGED <<mvars, mframe>>

\* pthread_mutex_timedlock as the older timedlock() reaches it: the caller may
\* be the owner of the (default-type) native mutex, which then is never
\* released before the deadline (ETIMEDOUT, return false), or, where the
\* platform detects the relock, fails with EDEADLK (std::system_error)
Mutex_old_timedlock_native(t) ==
    /\ pc[t] = <<"timedlock", "native">>
    /\ \/ /\ mutex = NoThread
          /\ mutex' = t
          /\ Goto(t, "timedlock", "set_owner")
       \/ /\ mutex # NoThread
          /\ Return(t, "false")
          /\ UNCHANGED mutex
       \/ /\ mutex = t
          /\ Return(t, "SystemError")
          /\ UNCHANGED mutex
    /\ UNCHANGED <<mframe, lock_thread, locked, holds, counter, tmp, iters>>

Mutex_old_timedlock(t) ==
    \/ Mutex_old_timedlock_call(t)
    \/ Mutex_old_timedlock_native(t)
    \/ Mutex_set_owner(t, "timedlock")
    \/ Mutex_set_locked(t, "timedlock")

NextMOld ==
    \E t \in MThreads :
        \/ Mutex_lock(t)
        \/ Mutex_trylock(t)
        \/ Mutex_old_timedlock(t)
        \/ Mutex_unlock(t)
        \/ CounterRead(t)
        \/ CounterWrite(t)

SpecMutexOld == InitM /\ [][NextMOld]_vars

\* C11: timedlock() makes the double-lock check of lock().  A thread that
\* holds the Mutex and calls timedlock() never reaches the native call (it
\* neither blocks until the deadline nor returns false): it is thrown out
\* with DoubleLock, and locked, lock_thread and the native mutex are as
\* before.  Stated of every version of Mutex::timedlock.
C11_TimedlockDoubleLock ==
    /\ [](\A t \in MThreads :
            holds[t] /\ pc[t][1] = "timedlock"
              => pc[t][2] = "chk_owner" /\ locked /\ lock_thread = t /\ mutex = t)
    /\ [][\A t \in MThreads :
            holds[t] /\ pc[t][1] = "timedlock" /\ pc'[t] # pc[t]
              => /\ pc'[t] = <<"ret", "DoubleLock">>
                 /\ locked' /\ lock_thread' = t /\ mutex' = t /\ holds'[t]]_vars

\* =========================================================================
\*                               Condition
\* =========================================================================

\* positions inside wait() / wait(time) at which the caller is counted in
\* waiting_thread_count and does not hold the embedded mutex
WaitMethods == {"wait", "timedwait"}
Parked(t) == pc[t][1] \in WaitMethods /\ pc[t][2] \in {"blocked", "woken", "timedout"}
\* the caller is counted in waiting_thread_count
Counted(t) == Parked(t) \/ (pc[t][1] \in WaitMethods /\ pc[t][2] \in {"exit", "exit_timedout"})

\* mutant: wait(time) does not call pthread_timeout before it locks
Condition_lock_unverified(t, m) ==
    /\ AtRest(t)
    /\ cond_mutex = NoThread
    /\ cond_mutex' = t
    /\ Goto(t, m, "locked")
    /\ UNCHANGED <<cframe, signal_created, waiting_thread_count, wakeup_by_brodcast, scn>>

\* pthread_mutex_lock(&mutex) opening wait(), wait(time), signal(), broadcast();
\* wait(time) calls pthread_timeout(time) before it, which throws
\* std::invalid_argument for a time out of range
Condition_lock(t, m) ==
    /\ AtRest(t)
    /\ IF m = "timedwait" /\ ~ValidTimespec(time)
       THEN /\ Return(t, "invalid_argument")
            /\ UNCHANGED cond_mutex
       ELSE /\ cond_mutex = NoThread
            /\ cond_mutex' = t
            /\ Goto(t, m, "locked")
    /\ UNCHANGED <<cframe, signal_created, waiting_thread_count, wakeup_by_brodcast, scn>>

\* `while (!signal_created)`: the loop test made with the mutex held; when it
\* fails the caller enters pthread_cond_(timed)wait, which releases the mutex
Condition_loop(t, m) ==
    IF signal_created
    THEN /\ Goto(t, m, "exit")
         /\ cond_mutex' = t
    ELSE /\ Goto(t, m, "blocked")
         /\ cond_mutex' = NoThread

\* `waiting_thread_count++;` and the first loop test
Condition_wait_inc(t, m) ==
    /\ pc[t] = <<m, "locked">>
    /\ waiting_thread_count' = waiting_thread_count + 1
    /\ Condition_loop(t, m)
    /\ scn' = IF scn.kind \in {"none", "count"} THEN scn ELSE [scn EXCEPT !.late = TRUE]
    /\ UNCHANGED <<cframe, signal_created, wakeup_by_brodcast>>

\* a spurious wakeup of pthread_cond_wait / pthread_cond_timedwait
Condition_spurious(t, m) ==
    /\ pc[t] = <<m, "blocked">>
    /\ Goto(t, m, "woken")
    /\ UNCHANGED <<cframe, cvars>>

\* pthread_cond_(timed)wait returns 0: the woken caller has re-acquired the
\* mutex; the loop test follows
Condition_wait_woken(t, m) ==
    /\ pc[t] = <<m, "woken">>
    /\ cond_mutex = NoThread
    /\ Condition_loop(t, m)
    /\ UNCHANGED <<cframe, signal_created, waiting_thread_count, wakeup_by_brodcast, scn>>

\* mutant: the broadcast case is forgotten, every released waiter resets the signal
Condition_reset_always(count) == FALSE

\* mutant: a waiter that leaves never resets the signal
Condition_reset_never(count) == signal_created

\* `if (!wakeup_by_brodcast || waiting_thread_count == 0) signal_created = false;`
\* the value of signal_created after the test, count being the decremented counter
Condition_reset(count) ==
    IF ~wakeup_by_brodcast \/ count = 0 THEN FALSE ELSE signal_created

\* `waiting_thread_count--;`, the reset of signal_created, pthread_mutex_unlock
\* and the return of return_value (rv)
Condition_exit(t, m, rv) ==
    /\ waiting_thread_count' = waiting_thread_count - 1
    /\ signal_created' = Condition_reset(waiting_thread_count - 1)
    /\ cond_mutex' = NoThread
    /\ Return(t, rv)
    /\ scn' = IF scn.kind = "count"
              THEN IF rv = "true" THEN [scn EXCEPT !.released = @ + 1] ELSE scn
              ELSE IF t \in scn.S /\ t \notin scn.done /\ rv = "true"
              THEN [scn EXCEPT !.done = @ \cup {t}] ELSE scn
    /\ UNCHANGED <<cframe, wakeup_by_brodcast>>

\* wait(): leaving the loop with signal_created true
Condition_wait_exit(t) ==
    /\ pc[t] = <<"wait", "exit">>
    /\ Condition_exit(t, "wait", "true")

Condition_wait(t) ==
    \/ Condition_lock(t, "wait")
    \/ Condition_wait_inc(t, "wait")
    \/ Condition_spurious(t, "wait")
    \/ Condition_wait_woken(t, "wait")
    \/ Condition_wait_exit(t)

\* the deadline of pthread_cond_timedwait passes while the caller is blocked
Condition_timedwait_deadline(t) ==
    /\ pc[t] = <<"timedwait", "blocked">>
    /\ Goto(t, "timedwait", "timedout")
    /\ UNCHANGED <<cframe, cvars>>

\* pthread_cond_timedwait returns ETIMEDOUT with the mutex re-acquired:
\* `return_value = false; break;`
Condition_timedwait_timedout(t) ==
    /\ pc[t] = <<"timedwait", "timedout">>
    /\ cond_mutex = NoThread
    /\ cond_mutex' = t
    /\ Goto(t, "timedwait", "exit_timedout")
    /\ UNCHANGED <<cframe, signal_created, waiting_thread_count, wakeup_by_brodcast, scn>>

\* wait(time): the bookkeeping after the loop, for either way out of it
Condition_timedwait_exit(t) ==
    \/ /\ pc[t] = <<"timedwait", "exit">>
       /\ Condition_exit(t, "timedwait", "true")
    \/ /\ pc[t] = <<"timedwait", "exit_timedout">>
       /\ Condition_exit(t, "timedwait", "false")

Condition_timedwait(t) ==
    \/ Condition_lock(t, "timedwait")
    \/ Condition_wait_inc(t, "timedwait")
    \/ Condition_spurious(t, "timedwait")
    \/ Condition_wait_woken(t, "timedwait")
    \/ Condition_timedwait_deadline(t)
    \/ Condition_timedwait_timedout(t)
    \/ Condition_timedwait_exit(t)

\* the scenario a signal()/broadcast() opens: the threads it finds waiting;
\* clean when no earlier signal is still pending and all of them are in wait()
Scenario(kind) ==
    IF waiting_thread_count = 0 THEN NoScenario
    ELSE [kind  |-> kind,
          clean |-> ~signal_created /\ \A u \in CThreads : Parked(u) => pc[u][1] = "wait",
          S     |-> {u \in CThreads : Parked(u)},
          n     |-> waiting_thread_count,
          done  |-> {},
          late  |-> FALSE]

\* mutant: signal()/broadcast() report a waiter whether or not there is one
Condition_notify_always_true(t, m, bc, W) ==
    /\ pc[t] = <<m, "locked">>
    /\ signal_created' = (waiting_thread_count # 0)
    /\ wakeup_by_brodcast' = bc
    /\ pc' = [u \in DOMAIN pc |->
                IF u = t THEN <<"ret", "true">>
                ELSE IF u \in W THEN <<pc[u][1], "woken">>
                ELSE pc[u]]
    /\ cond_mutex' = NoThread
    /\ scn' = Scenario(m)
    /\ UNCHANGED <<cframe, waiting_thread_count>>

\* signal()/broadcast() with the mutex held: `signal_created = waiting_thread_count != 0;
\* wakeup_by_brodcast = <bc>; bool ret_val = signal_created;`, the native wake
\* of the set W of blocked threads, pthread_mutex_unlock and `return ret_val`
Condition_notify(t, m, bc, W) ==
    /\ pc[t] = <<m, "locked">>
    /\ signal_created' = (waiting_thread_count # 0)
    /\ wakeup_by_brodcast' = bc
    /\ pc' = [u \in DOMAIN pc |->
                IF u = t THEN <<"ret", IF waiting_thread_count # 0 THEN "true" ELSE "false">>
                ELSE IF u \in W THEN <<pc[u][1], "woken">>
                ELSE pc[u]]
    /\ cond_mutex' = NoThread
    /\ scn' = IF scn.kind = "count"
              THEN IF waiting_thread_count # 0 THEN [scn EXCEPT !.signals = @ + 1] ELSE scn
              ELSE Scenario(m)
    /\ UNCHANGED <<cframe, waiting_thread_count>>

Blocked == {u \in CThreads : pc[u][1] \in WaitMethods /\ pc[u][2] = "blocked"}

\* pthread_cond_signal: one of the blocked threads, if there is any
Condition_signal_body(t) ==
    \E W \in SUBSET Blocked :
        /\ Cardinality(W) = (IF Blocked = {} THEN 0 ELSE 1)
        /\ Condition_notify(t, "signal", FALSE, W)

\* pthread_cond_broadcast: all the blocked threads
Condition_broadcast_body(t) == Condition_notify(t, "broadcast", TRUE, Blocked)

Condition_signal(t) ==
    \/ Condition_lock(t, "signal")
    \/ Condition_signal_body(t)

Condition_broadcast(t) ==
    \/ Condition_lock(t, "broadcast")
    \/ Condition_broadcast_body(t)

InitC ==
    /\ InitThreads(CThreads)
    /\ InitMutex
    /\ InitCondition
    /\ InitSemaphore(0)
    /\ InitRW_Lock
    /\ InitThread("JOINABLE")
    /\ NoTimeout

NextC ==
    \E t \in CThreads :
        \/ Condition_wait(t)
        \/ Condition_timedwait(t)
        \/ Condition_signal(t)
        \/ Condition_broadcast(t)

SpecCond == InitC /\ [][NextC]_vars

\* the Condition used through wait(), signal() and broadcast() alone
NextCW ==
    \E t \in CThreads :
        \/ Condition_wait(t)
        \/ Condition_signal(t)
        \/ Condition_broadcast(t)

\* a thread inside a call runs on: it gets the embedded mutex when that is
\* free and executes the statements that follow.  Starting a call and a
\* spurious wakeup are never forced.
CondProgress(t) ==
    \/ Condition_wait_inc(t, "wait")
    \/ Condition_wait_woken(t, "wait")
    \/ Condition_wait_exit(t)
    \/ Condition_signal_body(t)
    \/ Condition_broadcast_body(t)

FairSpecCondWait ==
    /\ InitC
    /\ [][NextCW]_vars
    /\ \A t \in CThreads : WF_vars(CondProgress(t))

\* --------------------------------------------------- Condition: properties

\* the threads counted in waiting_thread_count that are not waiters of the
\* scenario still inside the wait() the scenario found them in
LateWaiting == {u \in CThreads : Counted(u) /\ u \notin (scn.S \ scn.done)}

\* what C2 says of a signal() that found scn.n threads blocked in wait(), no
\* earlier signal pending and no signal()/broadcast() after it: at most one
\* of them returns; once the signal is consumed (signal_created false again)
\* exactly one has returned and waiting_thread_count is one lower, the
\* waiters that arrived later apart
SignalReleasesOne ==
    /\ Cardinality(scn.done) <= 1
    /\ scn.done # {} => ~signal_created
    /\ ~signal_created =>
         /\ Cardinality(scn.done) = 1
         /\ waiting_thread_count = scn.n - 1 + Cardinality(LateWaiting)

\* C2: a single signal() issued while n >= 1 threads are blocked in wait()
\* (no other signal/broadcast, spurious wakeups allowed) makes exactly one of
\* the n wait() calls return, leaves the other n-1 blocked, lowers
\* waiting_thread_count by exactly 1, and signal_created is false again once
\* the released waiter has returned.
C2_SignalWakesOne == scn.kind = "signal" /\ scn.clean => SignalReleasesOne

\* the same, for the runs in which no wait() call has entered after the signal
C2_SignalWakesOne_NoLateWait ==
    scn.kind = "signal" /\ scn.clean /\ ~scn.late => SignalReleasesOne

\* a signal that found two waiters has released one of them
C2_Witness ==
    /\ scn.kind = "signal" /\ scn.clean /\ ~scn.late
    /\ scn.n = 2 /\ Cardinality(scn.done) = 1
    /\ waiting_thread_count = 1 /\ ~signal_created

\* a broadcast() found scn.n threads blocked in wait() with no earlier signal
\* pending, and since then there was no signal()/broadcast() and no wait()
\* call has entered
BroadcastUndisturbed == scn.kind = "broadcast" /\ scn.clean /\ ~scn.late

\* C3: after a broadcast() issued while n >= 1 threads are blocked in wait()
\* (no other signal/broadcast and no new wait() afterwards), under fair
\* scheduling all n wait() calls eventually return true and
\* waiting_thread_count reaches 0; signal_created stays true until the last
\* of them has left and is false from then on.
C3_BroadcastWakesAll ==
    /\ [](BroadcastUndisturbed =>
            /\ waiting_thread_count = scn.n - Cardinality(scn.done)
            /\ scn.done # scn.S => signal_created
            /\ scn.done = scn.S => ~signal_created /\ waiting_thread_count = 0)
    /\ (BroadcastUndisturbed ~> (scn.done = scn.S \/ ~BroadcastUndisturbed))

\* a broadcast that found two or more waiters has released them all
C3_Witness ==
    /\ BroadcastUndisturbed
    /\ scn.n >= 2 /\ scn.done = scn.S /\ Cardinality(scn.S) = scn.n
    /\ \A u \in scn.S : pc[u] = <<"ret", "true">>
    /\ waiting_thread_count = 0 /\ ~signal_created

\* C15: return value of signal() and broadcast().  waiting_thread_count is the
\* number of threads inside wait()/wait(time) between their increment and
\* their decrement of it.  signal() and broadcast() return true when, holding
\* the embedded mutex, they find it different from 0, and false when they find
\* it 0; after a false return signal_created is false.  signal_created turns
\* true in signal() and broadcast() only, and a wait() that finds it false
\* blocks.
C15_NotifyResult ==
    /\ [](waiting_thread_count = Cardinality({u \in CThreads : Counted(u)}))
    /\ [][\A t \in CThreads :
            /\ pc[t][1] \in {"signal", "broadcast"} /\ pc[t][2] = "locked" /\ pc'[t] # pc[t]
                  => /\ pc'[t] = <<"ret", IF waiting_thread_count # 0 THEN "true" ELSE "false">>
                     /\ pc'[t] = <<"ret", "false">> => ~signal_created'
            /\ ~signal_created /\ signal_created'
                  => \E u \in CThreads : pc[u][1] \in {"signal", "broadcast"} /\ pc'[u] # pc[u]
            /\ pc[t] = <<"wait", "locked">> /\ ~signal_created /\ pc'[t] # pc[t]
                  => pc'[t] = <<"wait", "blocked">>]_vars

\* one thread has got false, a wait() started after that was found by the
\* signal() of another thread, which has returned true and left signal_created
\* true for the waiter
C15_Witness ==
    /\ scn.kind = "signal" /\ scn.n = 1 /\ scn.done = {} /\ ~scn.late
    /\ signal_created /\ waiting_thread_count = 1
    /\ \E t, u, w \in CThreads :
          /\ pc[t] = <<"ret", "false">>
          /\ pc[u] = <<"ret", "true">>
          /\ scn.S = {w} /\ pc[w] = <<"wait", "woken">>

\* C16: wait() absorbs spurious wakeups.  A wait() leaves its loop only with
\* signal_created true, and that signal was given by a signal() or broadcast()
\* that found the caller waiting (the caller is one of the waiters of the
\* scenario and has not yet returned from it); a wakeup that finds
\* signal_created false sends the caller back into pthread_cond_wait; and
\* wait() returns true, from the end of the method only.
C16_WaitAbsorbsSpurious ==
    /\ [](\A t \in CThreads : pc[t] = <<"wait", "exit">>
              => signal_created /\ t \in scn.S \ scn.done)
    /\ [][\A t \in CThreads :
            /\ pc[t][1] = "wait" /\ pc'[t][1] = "ret"
                  => pc[t] = <<"wait", "exit">> /\ pc'[t] = <<"ret", "true">>
            /\ pc[t] = <<"wait", "woken">> /\ ~signal_created /\ pc'[t] # pc[t]
                  => pc'[t] = <<"wait", "blocked">>]_vars

\* C17: result of wait(time).  The caller stops waiting either with
\* signal_created true, and then returns true after the bookkeeping of wait(),
\* or because the deadline has passed with signal_created still false, and
\* then returns false: it never returns false while signal_created is true.
C17_TimedWaitResult ==
    /\ [](\A t \in CThreads :
              /\ pc[t] = <<"timedwait", "exit">> => signal_created
              /\ pc[t] = <<"timedwait", "exit_timedout">> => ~signal_created)
    /\ [][\A t \in CThreads :
            pc[t][1] = "timedwait" /\ pc'[t][1] = "ret"
               => pc'[t] = <<"ret", IF signal_created THEN "true" ELSE "false">>]_vars

\* =========================================================================
\*                               Semaphore
\* =========================================================================
\* The native calls fail for contention (timedwait: the deadline) only.  A
\* thread reads and writes the locking_threads entry of its own key only, so
\* that access is taken together with the access to shared data next to it.
\* In SpecSem operator[] creates a missing entry in one step; SpecSemMap
\* (below) takes the insertion into the unsynchronised std::unordered_map in
\* its two steps, lookup and link, which two threads can interleave.

\* ++ and -- of an unsigned counter, and the unsigned comparisons with it
UnsignedInc(v) == v + 1
UnsignedDec(v) == v - 1
UnsignedLe(a, b) == IF (a >= 0) = (b >= 0) THEN a <= b ELSE a >= 0

\* what the storage of the uninitialised current_value may hold
Uninitialised == {0, UnsignedMax}

\* Lost updates can carry a counter away from its range 0..max without end:
\* the store that would carry it more than one step away is not taken
InReach(v, max) == v = UnsignedMax \/ UnsignedLe(v, max + 1)

AcquireMethods == {"wait", "trywait", "timedwait"}

\* the value an acquire variant returns on success (wait() returns nothing)
Acquired(m) == IF m = "wait" THEN "ok" ELSE "true"

\* `if(locking_threads[thread]) throw std::logic_error(...)`: operator[] creates
\* the entry with false when the key is new; then the load of `thread_queue++`
\* (timedwait calls pthread_timeout(time) in between, which throws
\* std::invalid_argument for a time out of range)
Semaphore_enter(t, m) ==
    /\ AtRest(t)
    /\ IF locking_threads[t] = "true"
       THEN /\ Return(t, "DoubleWait")
            /\ UNCHANGED <<reg, locking_threads>>
       ELSE /\ locking_threads' = [locking_threads EXCEPT ![t] = "false"]
            /\ IF m = "timedwait" /\ ~ValidTimespec(time)
               THEN /\ Return(t, "invalid_argument")
                    /\ UNCHANGED reg
               ELSE /\ reg' = [reg EXCEPT ![t] = thread_queue]
                    /\ Goto(t, m, "q_inc")
    /\ UNCHANGED <<sframe, map_seen, sem, current_value, thread_queue, permit>>

\* the store of `thread_queue++`
Semaphore_q_inc(t, m) ==
    /\ pc[t] = <<m, "q_inc">>
    /\ InReach(UnsignedInc(reg[t]), SemThreads)
    /\ thread_queue' = UnsignedInc(reg[t])
    /\ reg' = [reg EXCEPT ![t] = 0]
    /\ Goto(t, m, "native")
    /\ UNCHANGED <<sframe, map_seen, sem, locking_threads, current_value, permit>>

\* mutant: the native wait succeeds whatever the value of the semaphore
Semaphore_sem_wait_never_blocks(t, m) ==
    /\ pc[t] = <<m, "native">>
    /\ sem' = IF sem > 0 THEN sem - 1 ELSE sem
    /\ pc' = [pc EXCEPT ![t] = <<"acquired", Acquired(m), "v_load">>]
    /\ UNCHANGED <<sframe, map_seen, reg, locking_threads, current_value, thread_queue, permit>>

\* sem_wait: blocks while the value of the native semaphore is 0, then takes 1.
\* wait() and trywait() both call sem_wait.
Semaphore_sem_wait(t, m) ==
    /\ pc[t] = <<m, "native">>
    /\ sem > 0
    /\ sem' = sem - 1
    /\ pc' = [pc EXCEPT ![t] = <<"acquired", Acquired(m), "v_load">>]
    /\ UNCHANGED <<sframe, map_seen, reg, locking_threads, current_value, thread_queue, permit>>

\* sem_timedwait: takes 1 when the value is positive; ETIMEDOUT can only
\* happen while the value is 0
Semaphore_sem_timedwait(t) ==
    /\ pc[t] = <<"timedwait", "native">>
    /\ \/ /\ sem > 0
          /\ sem' = sem - 1
          /\ pc' = [pc EXCEPT ![t] = <<"acquired", "true", "v_load">>]
       \/ /\ sem = 0
          /\ Goto(t, "timedwait", "timeout_q_load")
          /\ UNCHANGED sem
    /\ UNCHANGED <<sframe, map_seen, reg, locking_threads, current_value, thread_queue, permit>>

\* After the native call has taken a unit, wait(), trywait() and timedwait()
\* run the same three statements and return; rv is "ok" after wait() and
\* "true" after the other two.

\* the load of `current_value++`
Semaphore_v_load(t, rv) ==
    /\ pc[t] = <<"acquired", rv, "v_load">>
    /\ reg' = [reg EXCEPT ![t] = current_value]
    /\ pc' = [pc EXCEPT ![t] = <<"acquired", rv, "v_inc">>]
    /\ UNCHANGED <<sframe, map_seen, sem, locking_threads, current_value, thread_queue, permit>>

\* the store of `current_value++`
Semaphore_v_inc(t, rv) ==
    /\ pc[t] = <<"acquired", rv, "v_inc">>
    /\ InReach(UnsignedInc(reg[t]), SemMaxValue)
    /\ current_value' = UnsignedInc(reg[t])
    /\ reg' = [reg EXCEPT ![t] = 0]
    /\ pc' = [pc EXCEPT ![t] = <<"acquired", rv, "q_load">>]
    /\ UNCHANGED <<sframe, map_seen, sem, locking_threads, thread_queue, permit>>

\* the load of `thread_queue--`
Semaphore_q_load(t, rv) ==
    /\ pc[t] = <<"acquired", rv, "q_load">>
    /\ reg' = [reg EXCEPT ![t] = thread_queue]
    /\ pc' = [pc EXCEPT ![t] = <<"acquired", rv, "q_dec">>]
    /\ UNCHANGED <<sframe, map_seen, sem, locking_threads, current_value, thread_queue, permit>>

\* the store of `thread_queue--`, `locking_threads[thread] = true;` and the
\* return: the caller holds a permit
Semaphore_q_dec(t, rv) ==
    /\ pc[t] = <<"acquired", rv, "q_dec">>
    /\ InReach(UnsignedDec(reg[t]), SemThreads)
    /\ thread_queue' = UnsignedDec(reg[t])
    /\ reg' = [reg EXCEPT ![t] = 0]
    /\ locking_threads' = [locking_threads EXCEPT ![t] = "true"]
    /\ permit' = [permit EXCEPT ![t] = TRUE]
    /\ Return(t, rv)
    /\ UNCHANGED <<sframe, map_seen, sem, current_value>>

Semaphore_acquired(t) ==
    \E rv \in {"ok", "true"} :
        \/ Semaphore_v_load(t, rv)
        \/ Semaphore_v_inc(t, rv)
        \/ Semaphore_q_load(t, rv)
        \/ Semaphore_q_dec(t, rv)

\* timedwait after ETIMEDOUT: the load of `thread_queue--`
Semaphore_timeout_q_load(t) ==
    /\ pc[t] = <<"timedwait", "timeout_q_load">>
    /\ reg' = [reg EXCEPT ![t] = thread_queue]
    /\ Goto(t, "timedwait", "timeout_q_dec")
    /\ UNCHANGED <<sframe, map_seen, sem, locking_threads, current_value, thread_queue, permit>>

\* its store, and `return false`
Semaphore_timeout_q_dec(t) ==
    /\ pc[t] = <<"timedwait", "timeout_q_dec">>
    /\ InReach(UnsignedDec(reg[t]), SemThreads)
    /\ thread_queue' = UnsignedDec(reg[t])
    /\ reg' = [reg EXCEPT ![t] = 0]
    /\ Return(t, "false")
    /\ UNCHANGED <<sframe, map_seen, sem, locking_threads, current_value, permit>>

Semaphore_wait(t) ==
    \/ Semaphore_enter(t, "wait")
    \/ Semaphore_q_inc(t, "wait")
    \/ Semaphore_sem_wait(t, "wait")

\* trywait() calls sem_wait, which never fails with EAGAIN: its `return false`
\* is not reached
Semaphore_trywait(t) ==
    \/ Semaphore_enter(t, "trywait")
    \/ Semaphore_q_inc(t, "trywait")
    \/ Semaphore_sem_wait(t, "trywait")

Semaphore_timedwait(t) ==
    \/ Semaphore_enter(t, "timedwait")
    \/ Semaphore_q_inc(t, "timedwait")
    \/ Semaphore_sem_timedwait(t)
    \/ Semaphore_timeout_q_load(t)
    \/ Semaphore_timeout_q_dec(t)

\* post(): `if(!locking_threads[thread]) throw std::logic_error(...)`, then
\* sem_post.  The caller has started its release.
Semaphore_post_enter(t) ==
    /\ AtRest(t)
    /\ permit' = [permit EXCEPT ![t] = FALSE]
    /\ IF locking_threads[t] = "true"
       THEN /\ sem' = sem + 1
            /\ Goto(t, "post", "v_load")
            /\ UNCHANGED locking_threads
       ELSE /\ locking_threads' = [locking_threads EXCEPT ![t] = "false"]
            /\ Return(t, "NotHeld")
            /\ UNCHANGED sem
    /\ UNCHANGED <<sframe, map_seen, reg, current_value, thread_queue>>

\* the load of `current_value--`
Semaphore_post_v_load(t) ==
    /\ pc[t] = <<"post", "v_load">>
    /\ reg' = [reg EXCEPT ![t] = current_value]
    /\ Goto(t, "post", "v_dec")
    /\ UNCHANGED <<sframe, map_seen, sem, locking_threads, current_value, thread_queue, permit>>

\* the store of `current_value--`, `locking_threads[thread] = false;` and the return
Semaphore_post_v_dec(t) ==
    /\ pc[t] = <<"post", "v_dec">>
    /\ InReach(UnsignedDec(reg[t]), SemMaxValue)
    /\ current_value' = UnsignedDec(reg[t])
    /\ reg' = [reg EXCEPT ![t] = 0]
    /\ locking_threads' = [locking_threads EXCEPT ![t] = "false"]
    /\ Return(t, "ok")
    /\ UNCHANGED <<sframe, map_seen, sem, thread_queue, permit>>

Semaphore_post(t) ==
    \/ Semaphore_post_enter(t)
    \/ Semaphore_post_v_load(t)
    \/ Semaphore_post_v_dec(t)

\* ---- the insertion into the unsynchronised map ----
\* operator[] on a key the map does not hold looks the key up and then links a
\* new node holding false.  Two threads doing so at once race on the links; of
\* the outcomes the model takes that of a node list: the thread that links
\* last links in front of the nodes it found, and the nodes linked since it
\* looked are lost.  (An assignment through operator[] to an entry lost in
\* between creates it again in the same step.)

\* the keys the map holds
Present == {u \in SThreads : locking_threads[u] # NoEntry}

\* the map after thread t has linked its node in front of the nodes it found
Linked(t) ==
    [u \in SThreads |-> IF u = t THEN "false"
                        ELSE IF u \in map_seen[t] THEN locking_threads[u]
                        ELSE NoEntry]

\* `locking_threads[thread]` on a missing key: the lookup
Semaphore_find(t, m) ==
    /\ AtRest(t)
    /\ locking_threads[t] = NoEntry
    /\ map_seen' = [map_seen EXCEPT ![t] = Present]
    /\ permit' = IF m = "post" THEN [permit EXCEPT ![t] = FALSE] ELSE permit
    /\ Goto(t, m, "insert")
    /\ UNCHANGED <<sframe, reg, sem, locking_threads, current_value, thread_queue>>

\* `if(locking_threads[thread])` on a missing key: the link; the check finds
\* false in the new node
Semaphore_insert(t, m) ==
    /\ pc[t] = <<m, "insert">>
    /\ locking_threads' = Linked(t)
    /\ map_seen' = [map_seen EXCEPT ![t] = {}]
    /\ Goto(t, m, "entered")
    /\ UNCHANGED <<sframe, reg, sem, current_value, thread_queue, permit>>

\* the load of `thread_queue++` after the insertion
Semaphore_entered(t, m) ==
    /\ pc[t] = <<m, "entered">>
    /\ IF m = "timedwait" /\ ~ValidTimespec(time)
       THEN /\ Return(t, "invalid_argument")
            /\ UNCHANGED reg
       ELSE /\ reg' = [reg EXCEPT ![t] = thread_queue]
            /\ Goto(t, m, "q_inc")
    /\ UNCHANGED <<sframe, map_seen, sem, locking_threads, current_value, thread_queue, permit>>

\* `if(!locking_threads[thread]) throw` of post() on a missing key: the link;
\* the check finds false in the new node
Semaphore_post_insert(t) ==
    /\ pc[t] = <<"post", "insert">>
    /\ locking_threads' = Linked(t)
    /\ map_seen' = [map_seen EXCEPT ![t] = {}]
    /\ Return(t, "NotHeld")
    /\ UNCHANGED <<sframe, reg, sem, current_value, thread_queue, permit>>

\* wait(), trywait() and timedwait() start with the insertion when the map
\* does not hold the caller's key
Semaphore_map_acquire(t) ==
    \E m \in AcquireMethods :
        \/ Semaphore_find(t, m)
        \/ Semaphore_insert(t, m)
        \/ Semaphore_entered(t, m)

\* and so does post()
Semaphore_map_post(t) ==
    \/ Semaphore_find(t, "post")
    \/ Semaphore_post_insert(t)

\* the calls of SpecSem start when the map holds the caller's key

KeyHeld(t) == AtRest(t) => locking_threads[t] # NoEntry

NextSMap ==
    \E t \in SThreads :
        \/ KeyHeld(t) /\ Semaphore_wait(t)
        \/ KeyHeld(t) /\ Semaphore_trywait(t)
        \/ KeyHeld(t) /\ Semaphore_timedwait(t)
        \/ KeyHeld(t) /\ Semaphore_post(t)
        \/ Semaphore_acquired(t)
        \/ Semaphore_map_acquire(t)
        \/ Semaphore_map_post(t)

InitS ==
    /\ InitThreads(SThreads)
    /\ InitMutex
    /\ InitCondition
    /\ \E v \in Uninitialised : InitSemaphore(v)
    /\ InitRW_Lock
    /\ InitThread("JOINABLE")
    /\ NoTimeout

NextS ==
    \E t \in SThreads :
        \/ Semaphore_wait(t)
        \/ Semaphore_trywait(t)
        \/ Semaphore_timedwait(t)
        \/ Semaphore_acquired(t)
        \/ Semaphore_post(t)

SpecSem == InitS /\ [][NextS]_vars

SpecSemMap == InitS /\ [][NextSMap]_vars

\* ---- the older Semaphore.cpp ----
\* Its constructor and its wait(), trywait() and timedwait() are those above;
\* its post() ends with `current_value++; locking_threads[thread] = false;`:
\* the store of that update and the return
Semaphore_old_post_v_inc(t) ==
    /\ pc[t] = <<"post", "v_dec">>
    /\ InReach(UnsignedInc(reg[t]), SemMaxValue)
    /\ current_value' = UnsignedInc(reg[t])
    /\ reg' = [reg EXCEPT ![t] = 0]
    /\ locking_threads' = [locking_threads EXCEPT ![t] = "false"]
    /\ Return(t, "ok")
    /\ UNCHANGED <<sframe, map_seen, sem, thread_queue, permit>>

Semaphore_old_post(t) ==
    \/ Semaphore_post_enter(t)
    \/ Semaphore_post_v_load(t)
    \/ Semaphore_old_post_v_inc(t)

NextSOld ==
    \E t \in SThreads :
        \/ Semaphore_wait(t)
        \/ Semaphore_trywait(t)
        \/ Semaphore_timedwait(t)
        \/ Semaphore_acquired(t)
        \/ Semaphore_old_post(t)

SpecSemOld == InitS /\ [][NextSOld]_vars

\* the steps of a thread inside a call
SemProgress(t) ==
    /\ ~AtRest(t)
    /\ \/ Semaphore_wait(t)
       \/ Semaphore_trywait(t)
       \/ Semaphore_timedwait(t)
       \/ Semaphore_acquired(t)
       \/ Semaphore_post(t)

\* --------------------------------------------------- Semaphore: properties

\* C4: value bound of the Semaphore.  In every reachable state
\* 0 <= current_value <= max_value (current_value is unsigned: the bound is
\* the unsigned comparison with max_value).
C4_ValueBound == UnsignedLe(current_value, SemMaxValue)

\* the threads between the successful return of an acquire variant and the
\* start of their post()
Holders == {t \in SThreads : permit[t]}

\* C5: capacity of the Semaphore.  At no instant are more than max_value
\* threads between a successful return of wait()/trywait()/timedwait() and the
\* start of their post().
C5_Capacity == Cardinality(Holders) <= SemMaxValue

\* max_value threads hold a permit and one more thread is held back in its
\* native wait by the exhausted semaphore
C5_Witness ==
    /\ Cardinality(Holders) = SemMaxValue
    /\ sem = 0
    /\ \E t \in SThreads \ Holders : pc[t][1] \in AcquireMethods /\ pc[t][2] = "native"

\* =========================================================================
\*                                RW_Lock
\* C13: trywait() of the Semaphore never blocks.  A thread inside trywait()
\* always has a step of its own to take, whether or not a unit of the
\* semaphore is there for it: it is never suspended until another thread
\* calls post().
C13_TrywaitNeverBlocks ==
    \A t \in SThreads : pc[t][1] = "trywait" => ENABLED SemProgress(t)

\* C14: bookkeeping of post().  A post() by a thread whose locking_threads
\* entry is true gives a unit back to the native semaphore, then stores a
\* current_value that is one lower than the one it found (when no other thread
\* has written current_value since the call read it), sets the caller's entry
\* to false and returns.
C14_PostBookkeeping ==
    [][\A t \in SThreads :
         /\ AtRest(t) /\ locking_threads[t] = "true" /\ pc'[t][1] = "post"
              => sem' = sem + 1 /\ UNCHANGED current_value
         /\ pc[t] = <<"post", "v_load">> /\ pc'[t] # pc[t]
              => UNCHANGED <<sem, current_value>>
         /\ pc[t] = <<"post", "v_dec">> /\ pc'[t] # pc[t]
              => /\ pc'[t] = <<"ret", "ok">>
                 /\ locking_threads'[t] = "false"
                 /\ UNCHANGED sem
                 /\ reg[t] = current_value
                      => current_value' = UnsignedDec(current_value)]_vars

\* C12: misuse detection of the Semaphore.  A thread that has acquired and not
\* released starts no further wait(), trywait() or timedwait(): the call
\* throws the logic_error "double wait" and leaves thread_queue, current_value
\* and the native semaphore alone.  A thread that does not hold the Semaphore
\* gets the logic_error "not acquired" from post(), with current_value and the
\* native semaphore left alone.
C12_MisuseDetected ==
    [][\A t \in SThreads :
         /\ AtRest(t) /\ pc'[t] # pc[t] /\ permit[t] /\ pc'[t][1] # "post"
              => /\ pc'[t] = <<"ret", "DoubleWait">>
                 /\ UNCHANGED <<thread_queue, current_value, sem>>
         /\ AtRest(t) /\ pc'[t] # pc[t] /\ ~permit[t] /\ pc'[t][1] \notin AcquireMethods
              => /\ pc'[t] \in {<<"ret", "NotHeld">>, <<"post", "insert">>}
                 /\ UNCHANGED <<current_value, sem>>
         /\ pc[t] = <<"post", "insert">> /\ pc'[t] # pc[t]
              => /\ pc'[t] = <<"ret", "NotHeld">>
                 /\ UNCHANGED <<current_value, sem>>]_vars

\* =========================================================================
\* A client thread acquires while it holds nothing and calls unlock() while
\* it holds the native lock, so every native call is well defined and the
\* native unlock succeeds.

\* the thread holds the native read-write lock
NativeHolds(t) == rw_lock.w = t \/ t \in rw_lock.r

\* the thread enters rd_lock(), wr_lock(), rd_timedlock() or wr_timedlock();
\* the timed variants compute their deadline with pthread_timeout(time), which
\* throws std::invalid_argument for a time out of range
RW_Lock_call(t, m) ==
    /\ AtRest(t)
    /\ ~NativeHolds(t)
    /\ IF m \in {"rd_timedlock", "wr_timedlock"} /\ ~ValidTimespec(time)
       THEN Return(t, "invalid_argument")
       ELSE Goto(t, m, "native")
    /\ UNCHANGED <<rframe, reg, rvars>>

\* pthread_rwlock_rdlock: blocks while a writer holds the lock
RW_Lock_rdlock_native(t) ==
    /\ pc[t] = <<"rd_lock", "native">>
    /\ rw_lock.w = NoThread
    /\ rw_lock' = [rw_lock EXCEPT !.r = @ \cup {t}]
    /\ pc' = [pc EXCEPT ![t] = <<"rd_acquired", "ok", "inc_load">>]
    /\ UNCHANGED <<rframe, reg, read_locked, write_locked, rdheld, wrheld>>

\* mutant: the native write lock does not wait for the readers to leave
RW_Lock_wrlock_native_ignores_readers(t) ==
    /\ pc[t] = <<"wr_lock", "native">>
    /\ rw_lock.w = NoThread
    /\ rw_lock' = [rw_lock EXCEPT !.w = t]
    /\ pc' = [pc EXCEPT ![t] = <<"wr_acquired", "ok", "set">>]
    /\ UNCHANGED <<rframe, reg, read_locked, write_locked, rdheld, wrheld>>

\* pthread_rwlock_wrlock: blocks while a writer or any reader holds the lock
RW_Lock_wrlock_native(t) ==
    /\ pc[t] = <<"wr_lock", "native">>
    /\ rw_lock.w = NoThread /\ rw_lock.r = {}
    /\ rw_lock' = [rw_lock EXCEPT !.w = t]
    /\ pc' = [pc EXCEPT ![t] = <<"wr_acquired", "ok", "set">>]
    /\ UNCHANGED <<rframe, reg, read_locked, write_locked, rdheld, wrheld>>

\* rd_trylock(): pthread_rwlock_tryrdlock, `if (temp == EBUSY) return false;`
RW_Lock_tryrdlock_native(t) ==
    /\ AtRest(t)
    /\ ~NativeHolds(t)
    /\ IF rw_lock.w = NoThread
       THEN /\ rw_lock' = [rw_lock EXCEPT !.r = @ \cup {t}]
            /\ pc' = [pc EXCEPT ![t] = <<"rd_acquired", "true", "inc_load">>]
       ELSE /\ Return(t, "false")
            /\ UNCHANGED rw_lock
    /\ UNCHANGED <<rframe, reg, read_locked, write_locked, rdheld, wrheld>>

\* wr_trylock(): pthread_rwlock_trywrlock, `if (temp == EBUSY) return false;`
RW_Lock_trywrlock_native(t) ==
    /\ AtRest(t)
    /\ ~NativeHolds(t)
    /\ IF rw_lock.w = NoThread /\ rw_lock.r = {}
       THEN /\ rw_lock' = [rw_lock EXCEPT !.w = t]
            /\ pc' = [pc EXCEPT ![t] = <<"wr_acquired", "true", "set">>]
       ELSE /\ Return(t, "false")
            /\ UNCHANGED rw_lock
    /\ UNCHANGED <<rframe, reg, read_locked, write_locked, rdheld, wrheld>>

\* pthread_rwlock_timedrdlock: ETIMEDOUT (return false) can only happen while
\* a writer holds the lock
RW_Lock_timedrdlock_native(t) ==
    /\ pc[t] = <<"rd_timedlock", "native">>
    /\ \/ /\ rw_lock.w = NoThread
          /\ rw_lock' = [rw_lock EXCEPT !.r = @ \cup {t}]
          /\ pc' = [pc EXCEPT ![t] = <<"rd_acquired", "true", "inc_load">>]
       \/ /\ rw_lock.w # NoThread
          /\ Return(t, "false")
          /\ UNCHANGED rw_lock
    /\ UNCHANGED <<rframe, reg, read_locked, write_locked, rdheld, wrheld>>

\* pthread_rwlock_timedwrlock: ETIMEDOUT (return false) can only happen while
\* the lock is held
RW_Lock_timedwrlock_native(t) ==
    /\ pc[t] = <<"wr_timedlock", "native">>
    /\ \/ /\ rw_lock.w = NoThread /\ rw_lock.r = {}
          /\ rw_lock' = [rw_lock EXCEPT !.w = t]
          /\ pc' = [pc EXCEPT ![t] = <<"wr_acquired", "true", "set">>]
       \/ /\ ~(rw_lock.w = NoThread /\ rw_lock.r = {})
          /\ Return(t, "false")
          /\ UNCHANGED rw_lock
    /\ UNCHANGED <<rframe, reg, read_locked, write_locked, rdheld, wrheld>>

\* After the native read lock is taken rd_lock(), rd_trylock() and
\* rd_timedlock() run the same statement, `read_locked++;`, and return (rv is
\* "ok" for rd_lock(), "true" for the other two).  This is its load ...
RW_Lock_rd_inc_load(t, rv) ==
    /\ pc[t] = <<"rd_acquired", rv, "inc_load">>
    /\ reg' = [reg EXCEPT ![t] = read_locked]
    /\ pc' = [pc EXCEPT ![t] = <<"rd_acquired", rv, "inc_store">>]
    /\ UNCHANGED <<rframe, rvars>>

\* ... and its store, and the return
RW_Lock_rd_inc_store(t, rv) ==
    /\ pc[t] = <<"rd_acquired", rv, "inc_store">>
    /\ InReach(UnsignedInc(reg[t]), RWThreads)
    /\ read_locked' = UnsignedInc(reg[t])
    /\ reg' = [reg EXCEPT ![t] = 0]
    /\ rdheld' = [rdheld EXCEPT ![t] = TRUE]
    /\ Return(t, rv)
    /\ UNCHANGED <<rframe, rw_lock, write_locked, wrheld>>

\* `write_locked = true;` after the native write lock is taken, and the return
RW_Lock_wr_set(t, rv) ==
    /\ pc[t] = <<"wr_acquired", rv, "set">>
    /\ write_locked' = TRUE
    /\ wrheld' = [wrheld EXCEPT ![t] = TRUE]
    /\ Return(t, rv)
    /\ UNCHANGED <<rframe, reg, rw_lock, read_locked, rdheld>>

\* the statements after the native lock is taken, shared by the variants
RW_Lock_acquired(t) ==
    \E rv \in {"ok", "true"} :
        \/ RW_Lock_rd_inc_load(t, rv)
        \/ RW_Lock_rd_inc_store(t, rv)
        \/ RW_Lock_wr_set(t, rv)

RW_Lock_rd_lock(t) ==
    \/ RW_Lock_call(t, "rd_lock")
    \/ RW_Lock_rdlock_native(t)

RW_Lock_wr_lock(t) ==
    \/ RW_Lock_call(t, "wr_lock")
    \/ RW_Lock_wrlock_native(t)

RW_Lock_rd_trylock(t) == RW_Lock_tryrdlock_native(t)

RW_Lock_wr_trylock(t) == RW_Lock_trywrlock_native(t)

RW_Lock_rd_timedlock(t) ==
    \/ RW_Lock_call(t, "rd_timedlock")
    \/ RW_Lock_timedrdlock_native(t)

RW_Lock_wr_timedlock(t) ==
    \/ RW_Lock_call(t, "wr_timedlock")
    \/ RW_Lock_timedwrlock_native(t)

\* unlock(): `if (not is_locked( )) throw std::logic_error(...)`; is_locked()
\* is `read_locked || write_locked`, this is its read of read_locked.  The
\* caller has called unlock().
RW_Lock_unlock_chk_read(t) ==
    /\ AtRest(t)
    /\ NativeHolds(t)
    /\ rdheld' = [rdheld EXCEPT ![t] = FALSE]
    /\ wrheld' = [wrheld EXCEPT ![t] = FALSE]
    /\ IF read_locked # 0 THEN Goto(t, "unlock", "test") ELSE Goto(t, "unlock", "chk_write")
    /\ UNCHANGED <<rframe, reg, rw_lock, read_locked, write_locked>>

\* the read of write_locked in is_locked(), and the throw
RW_Lock_unlock_chk_write(t) ==
    /\ pc[t] = <<"unlock", "chk_write">>
    /\ IF write_locked THEN Goto(t, "unlock", "test") ELSE Return(t, "NotLocked")
    /\ UNCHANGED <<rframe, reg, rvars>>

\* `bool write_locked_temp = write_locked;` (used after a failed native unlock
\* only) and `if (write_locked)`
RW_Lock_unlock_test(t) ==
    /\ pc[t] = <<"unlock", "test">>
    /\ IF write_locked THEN Goto(t, "unlock", "clear") ELSE Goto(t, "unlock", "dec_load")
    /\ UNCHANGED <<rframe, reg, rvars>>

\* `write_locked = false;` (write_locked_temp is true)
RW_Lock_unlock_clear(t) ==
    /\ pc[t] = <<"unlock", "clear">>
    /\ write_locked' = FALSE
    /\ Goto(t, "unlock", "native_w")
    /\ UNCHANGED <<rframe, reg, rw_lock, read_locked, rdheld, wrheld>>

\* the load of `read_locked--`
RW_Lock_unlock_dec_load(t) ==
    /\ pc[t] = <<"unlock", "dec_load">>
    /\ reg' = [reg EXCEPT ![t] = read_locked]
    /\ Goto(t, "unlock", "dec_store")
    /\ UNCHANGED <<rframe, rvars>>

\* the store of `read_locked--`
RW_Lock_unlock_dec_store(t) ==
    /\ pc[t] = <<"unlock", "dec_store">>
    /\ InReach(UnsignedDec(reg[t]), RWThreads)
    /\ read_locked' = UnsignedDec(reg[t])
    /\ reg' = [reg EXCEPT ![t] = 0]
    /\ Goto(t, "unlock", "native_r")
    /\ UNCHANGED <<rframe, rw_lock, write_locked, rdheld, wrheld>>

\* pthread_rwlock_unlock releases the lock the caller holds, and the return
RW_Lock_unlock_native(t) ==
    /\ pc[t] \in {<<"unlock", "native_w">>, <<"unlock", "native_r">>}
    /\ rw_lock' = IF rw_lock.w = t
                  THEN [rw_lock EXCEPT !.w = NoThread]
                  ELSE [rw_lock EXCEPT !.r = @ \ {t}]
    /\ Return(t, "ok")
    /\ UNCHANGED <<rframe, reg, read_locked, write_locked, rdheld, wrheld>>

RW_Lock_unlock(t) ==
    \/ RW_Lock_unlock_chk_read(t)
    \/ RW_Lock_unlock_chk_write(t)
    \/ RW_Lock_unlock_test(t)
    \/ RW_Lock_unlock_clear(t)
    \/ RW_Lock_unlock_dec_load(t)
    \/ RW_Lock_unlock_dec_store(t)
    \/ RW_Lock_unlock_native(t)

InitR ==
    /\ InitThreads(RThreads)
    /\ InitMutex
    /\ InitCondition
    /\ InitSemaphore(0)
    /\ InitRW_Lock
    /\ InitThread("JOINABLE")
    /\ NoTimeout

NextR ==
    \E t \in RThreads :
        \/ RW_Lock_rd_lock(t)
        \/ RW_Lock_wr_lock(t)
        \/ RW_Lock_rd_trylock(t)
        \/ RW_Lock_wr_trylock(t)
        \/ RW_Lock_rd_timedlock(t)
        \/ RW_Lock_wr_timedlock(t)
        \/ RW_Lock_acquired(t)
        \/ RW_Lock_unlock(t)

SpecRW == InitR /\ [][NextR]_vars

\* ---- RW_Lock: the native unlock fails

\* pthread_rwlock_unlock returns non-zero after `write_locked = false;`: the
\* lock stays as it is, `if (write_locked_temp) write_locked = true;` and
\* sysexcept throws std::system_error
RW_Lock_unlock_fails_w(t) ==
    /\ pc[t] = <<"unlock", "native_w">>
    /\ write_locked' = TRUE
    /\ wrheld' = [wrheld EXCEPT ![t] = rw_lock.w = t]
    /\ Return(t, "SystemError")
    /\ UNCHANGED <<rframe, reg, rw_lock, read_locked, rdheld>>

\* pthread_rwlock_unlock returns non-zero after `read_locked--;`: the load of
\* `else read_locked++;`
RW_Lock_unlock_fails_r(t) ==
    /\ pc[t] = <<"unlock", "native_r">>
    /\ reg' = [reg EXCEPT ![t] = read_locked]
    /\ Goto(t, "unlock", "restore")
    /\ UNCHANGED <<rframe, rvars>>

\* the store of that `read_locked++;`, and sysexcept throws std::system_error
RW_Lock_unlock_restore(t) ==
    /\ pc[t] = <<"unlock", "restore">>
    /\ InReach(UnsignedInc(reg[t]), RWThreads)
    /\ read_locked' = UnsignedInc(reg[t])
    /\ reg' = [reg EXCEPT ![t] = 0]
    /\ rdheld' = [rdheld EXCEPT ![t] = t \in rw_lock.r]
    /\ Return(t, "SystemError")
    /\ UNCHANGED <<rframe, rw_lock, write_locked, wrheld>>

NextRSys ==
    \/ NextR
    \/ \E t \in RThreads :
          \/ RW_Lock_unlock_fails_w(t)
          \/ RW_Lock_unlock_fails_r(t)
          \/ RW_Lock_unlock_restore(t)

SpecRWSys == InitR /\ [][NextRSys]_vars

\* ----------------------------------------------------- RW_Lock: properties

\* C6: invariant of the RW_Lock.  In every reachable state write_locked
\* implies read_locked == 0, and read_locked > 0 implies that write_locked is
\* false.
C6_LockInvariant ==
    /\ write_locked => read_locked = 0
    /\ read_locked # 0 => ~write_locked

\* the threads that have returned from a successful read acquisition and have
\* not called unlock() since
Readers == {t \in RThreads : rdheld[t]}

\* the threads that have returned from a successful write acquisition and have
\* not called unlock() since
Writers == {t \in RThreads : wrheld[t]}

\* C7: accuracy of the reader count.  Whenever N >= 1 threads have returned
\* from a successful read acquisition, none of them has called unlock() and no
\* thread is inside a call, is_read_locked() (read_locked) is exactly N and
\* is_write_locked() (write_locked) is false.
C7_ReaderCount ==
    (Readers # {} /\ \A t \in RThreads : AtRest(t))
        => read_locked = Cardinality(Readers) /\ ~write_locked

JoinMethods == {"join", "try_join", "timed_join"}
ThreadMethods == {"start", "detach", "cancel", "send_signal"} \cup JoinMethods

\* the owner calls method m; start() is called while the system has a thread
\* left to create
Thread_call(t, m) ==
    /\ AtRest(t)
    /\ m = "start" => running \/ created < MaxStarts
    /\ Goto(t, m, "called")
    /\ UNCHANGED <<tframe, tvars>>

\* mutant: start() does not test running
Thread_start_unchecked(t) ==
    /\ pc[t] = <<"start", "called">>
    /\ created < MaxStarts
    /\ created' = created + 1
    /\ thread_id' = created + 1
    /\ native' = [native EXCEPT ![created + 1] =
                     [state |-> "running", detached |-> attributes = "DETACHED",
                      cancel |-> FALSE, signalled |-> FALSE]]
    /\ running' = TRUE
    /\ Return(t, "ok")
    /\ UNCHANGED <<tframe, detachstate, attributes>>

\* start(): `if (running) throw`, pthread_create, `running = true`
Thread_start(t) ==
    /\ pc[t] = <<"start", "called">>
    /\ IF running
       THEN /\ Return(t, "ALREADY_STARTED")
            /\ UNCHANGED tvars
       ELSE /\ created' = created + 1
            /\ thread_id' = created + 1
            /\ native' = [native EXCEPT ![created + 1] =
                             [state |-> "running", detached |-> attributes = "DETACHED",
                              cancel |-> FALSE, signalled |-> FALSE]]
            /\ running' = TRUE
            /\ Return(t, "ok")
            /\ UNCHANGED <<detachstate, attributes>>
    /\ UNCHANGED tframe

\* pthread_detach(id): the thread gives its resources back when it terminates,
\* at once when it has terminated already
Detached(n) ==
    [n EXCEPT !.detached = TRUE,
              !.state = IF n.state = "terminated" THEN "released" ELSE n.state]

\* mutant: detach() tests running before detachstate
Thread_detach_running_first(t) ==
    /\ pc[t] = <<"detach", "called">>
    /\ IF ~running
       THEN /\ Return(t, "DETACH_STOPPED")
            /\ UNCHANGED tvars
       ELSE IF detachstate = "DETACHED"
       THEN /\ Return(t, "DETACH_DETACHED")
            /\ UNCHANGED tvars
       ELSE /\ native' = [native EXCEPT ![thread_id] = Detached(@)]
            /\ detachstate' = "DETACHED"
            /\ Return(t, "ok")
            /\ UNCHANGED <<thread_id, running, attributes, created>>
    /\ UNCHANGED tframe

\* detach(): the two checks, pthread_detach, `detachstate = DETACHED`
Thread_detach(t) ==
    /\ pc[t] = <<"detach", "called">>
    /\ IF detachstate = "DETACHED"
       THEN /\ Return(t, "DETACH_DETACHED")
            /\ UNCHANGED tvars
       ELSE IF ~running
       THEN /\ Return(t, "DETACH_STOPPED")
            /\ UNCHANGED tvars
       ELSE /\ native' = [native EXCEPT ![thread_id] = Detached(@)]
            /\ detachstate' = "DETACHED"
            /\ Return(t, "ok")
            /\ UNCHANGED <<thread_id, running, attributes, created>>
    /\ UNCHANGED tframe

\* mutant: the join variants test running before detachstate
Thread_join_check_running_first(t, m) ==
    /\ pc[t] = <<m, "called">>
    /\ IF ~running THEN Return(t, "JOIN_NOT_STARTED")
       ELSE IF detachstate = "DETACHED" THEN Return(t, "JOIN_DETACHED")
       ELSE IF m = "timed_join" /\ ~ValidTimespec(time) THEN Return(t, "invalid_argument")
       ELSE Goto(t, m, "native")
    /\ UNCHANGED <<tframe, tvars>>

\* mutant: the join variants do not test running
Thread_join_check_no_running_test(t, m) ==
    /\ pc[t] = <<m, "called">>
    /\ IF detachstate = "DETACHED" THEN Return(t, "JOIN_DETACHED")
       ELSE IF m = "timed_join" /\ ~ValidTimespec(time) THEN Return(t, "invalid_argument")
       ELSE Goto(t, m, "native")
    /\ UNCHANGED <<tframe, tvars>>

\* join(), try_join(), timed_join(): `if (detachstate == DETACHED) throw`,
\* `if (!running) throw`, and in timed_join the test of the timespec time
\* with the computation of the deadline
Thread_join_check(t, m) ==
    /\ pc[t] = <<m, "called">>
    /\ IF detachstate = "DETACHED" THEN Return(t, "JOIN_DETACHED")
       ELSE IF ~running THEN Return(t, "JOIN_NOT_STARTED")
       ELSE IF m = "timed_join" /\ ~ValidTimespec(time) THEN Return(t, "invalid_argument")
       ELSE Goto(t, m, "native")
    /\ UNCHANGED <<tframe, tvars>>

\* the native join has succeeded: `running = false` and the return
Thread_joined(t, rv) ==
    /\ native[thread_id].state = "terminated"
    /\ native' = [native EXCEPT ![thread_id].state = "joined"]
    /\ running' = FALSE
    /\ Return(t, rv)
    /\ UNCHANGED <<tframe, thread_id, detachstate, attributes, created>>

\* pthread_join returns when the thread has terminated
Thread_join_native(t) ==
    /\ pc[t] = <<"join", "native">>
    /\ Thread_joined(t, "ok")

\* mutant: try_join() gives the thread up when it is still running
Thread_try_join_native_gives_up(t) ==
    /\ pc[t] = <<"try_join", "native">>
    /\ \/ Thread_joined(t, "true")
       \/ /\ native[thread_id].state = "running"
          /\ Return(t, "false")
          /\ running' = FALSE
          /\ UNCHANGED <<tframe, thread_id, detachstate, attributes, created, native>>

\* pthread_tryjoin_np: EBUSY while the thread has not terminated
Thread_try_join_native(t) ==
    /\ pc[t] = <<"try_join", "native">>
    /\ \/ Thread_joined(t, "true")
       \/ /\ native[thread_id].state = "running"
          /\ Return(t, "false")
          /\ UNCHANGED <<tframe, tvars>>

\* pthread_timedjoin_np: ETIMEDOUT when the thread has not terminated at the
\* deadline
Thread_timed_join_native(t) ==
    /\ pc[t] = <<"timed_join", "native">>
    /\ \/ Thread_joined(t, "true")
       \/ /\ native[thread_id].state = "running"
          /\ Return(t, "false")
          /\ UNCHANGED <<tframe, tvars>>

Thread_join(t) ==
    \/ Thread_join_check(t, "join")
    \/ Thread_join_native(t)

Thread_try_join(t) ==
    \/ Thread_join_check(t, "try_join")
    \/ Thread_try_join_native(t)

Thread_timed_join(t) ==
    \/ Thread_join_check(t, "timed_join")
    \/ Thread_timed_join_native(t)

\* cancel() of a Thread that is not running: `if (!running) throw`
Thread_cancel_stopped(t) ==
    /\ pc[t] = <<"cancel", "called">>
    /\ ~running
    /\ Return(t, "CANCEL_STOPPED")
    /\ UNCHANGED <<tframe, tvars>>

\* cancel(): pthread_cancel on a thread the id names, `running = false`
Thread_cancel_native(t) ==
    /\ pc[t] = <<"cancel", "called">>
    /\ running
    /\ native[thread_id].state # "released"
    /\ native' = [native EXCEPT ![thread_id].cancel = @ \/ native[thread_id].state = "running"]
    /\ running' = FALSE
    /\ Return(t, "ok")
    /\ UNCHANGED <<tframe, thread_id, detachstate, attributes, created>>

\* cancel(): pthread_cancel with the id of a detached thread that has
\* terminated.  The id names no thread any more: the call fails with ESRCH, or
\* it finds nothing wrong and returns 0
Thread_cancel_released(t) ==
    /\ pc[t] = <<"cancel", "called">>
    /\ running
    /\ native[thread_id].state = "released"
    /\ \/ /\ Return(t, "system_error")
          /\ UNCHANGED running
       \/ /\ Return(t, "ok")
          /\ running' = FALSE
    /\ UNCHANGED <<tframe, thread_id, detachstate, attributes, created, native>>

Thread_cancel(t) ==
    \/ Thread_cancel_stopped(t)
    \/ Thread_cancel_native(t)
    \/ Thread_cancel_released(t)

\* send_signal(): `if (!running) throw std::runtime_error`, pthread_kill.  A
\* running thread gets the signal; with the id of a thread that has
\* terminated pthread_kill fails with ESRCH or returns 0 and delivers nothing
Thread_send_signal(t) ==
    /\ pc[t] = <<"send_signal", "called">>
    /\ IF ~running
       THEN /\ Return(t, "SIGNAL_STOPPED")
            /\ UNCHANGED native
       ELSE IF native[thread_id].state = "running"
       THEN /\ native' = [native EXCEPT ![thread_id].signalled = TRUE]
            /\ Return(t, "ok")
       ELSE /\ \E r \in {"ok", "system_error"} : Return(t, r)
            /\ UNCHANGED native
    /\ UNCHANGED <<tframe, thread_id, running, detachstate, attributes, created>>

\* the exception class the methods of Thread throw with each message
ErrorKind(r) ==
    CASE r \in {"ALREADY_STARTED", "DETACH_DETACHED", "DETACH_STOPPED", "JOIN_DETACHED",
                "JOIN_NOT_STARTED", "CANCEL_STOPPED"} -> "logic_error"
      [] r = "SIGNAL_STOPPED" -> "runtime_error"
      [] r = "invalid_argument" -> "invalid_argument"
      [] r = "system_error" -> "system_error"
      [] OTHER -> "none"

\* the thread function returns, or the thread acts on a cancellation request
Native_exit(i) ==
    /\ native[i].state = "running"
    /\ native' = [native EXCEPT ![i].state = IF native[i].detached THEN "released"
                                            ELSE "terminated"]
    /\ UNCHANGED <<pc, tframe, thread_id, running, detachstate, attributes, created>>

InitT ==
    /\ InitThreads(TCallers)
    /\ InitMutex
    /\ InitCondition
    /\ InitSemaphore(0)
    /\ InitRW_Lock
    /\ \E d \in {"JOINABLE", "DETACHED"} : InitThread(d)
    /\ time \in {ts \in Timespecs : ts.tv_sec \in {-1, 0} /\ ts.tv_nsec = 0}
    /\ current_time = [tv_sec |-> 0, tv_usec |-> 0]
    /\ timeout_time = NoTimespec

NextT ==
    \/ \E t \in TCallers :
          \/ \E m \in ThreadMethods : Thread_call(t, m)
          \/ Thread_start(t)
          \/ Thread_detach(t)
          \/ Thread_join(t)
          \/ Thread_try_join(t)
          \/ Thread_timed_join(t)
          \/ Thread_cancel(t)
          \/ Thread_send_signal(t)
    \/ \E i \in 1..MaxStarts : Native_exit(i)

SpecThread == InitT /\ [][NextT]_vars

\* ------------------------------------------------------ Thread: properties

\* C18: lifecycle of the Thread.  Once running has been true and is false again
\* (a native thread was created, and a join variant or cancel() has succeeded)
\* no step makes it true again.
C18_RunningOnce ==
    [][~running /\ created # 0 => ~running']_vars

\* C19: joining a detached Thread.  While detachstate is DETACHED, join(),
\* try_join() and timed_join() throw the logic_error JOIN_DETACHED, whether or
\* not the Thread is running; no native join is entered and no field of the
\* Thread changes.
C19_JoinDetached ==
    /\ [](\A t \in TCallers : pc[t][1] \in JoinMethods /\ pc[t][2] = "native"
              => detachstate = "JOINABLE")
    /\ [][\A t \in TCallers :
            pc[t][1] \in JoinMethods /\ pc[t][2] = "called"
               /\ detachstate = "DETACHED" /\ pc'[t] # pc[t]
               => pc'[t] = <<"ret", "JOIN_DETACHED">> /\ UNCHANGED tvars]_vars

\* a running Thread was detached by detach() and a join variant has thrown
C19_Witness ==
    /\ detachstate = "DETACHED" /\ attributes = "JOINABLE" /\ running
    /\ \E t \in TCallers : pc[t] = <<"ret", "JOIN_DETACHED">>

\* C20: joining a joinable Thread that is not running.  join(), try_join() and
\* timed_join() throw the logic_error JOIN_NOT_STARTED and change nothing when
\* running is false, and running is false before the first start(), once the
\* thread has been joined, and when cancel() has returned.
C20_JoinNotRunning ==
    /\ [](/\ created = 0 => ~running
          /\ thread_id # 0 /\ native[thread_id].state = "joined" => ~running)
    /\ [][\A t \in TCallers :
            /\ pc[t] = <<"cancel", "called">> /\ pc'[t] = <<"ret", "ok">> => ~running'
            /\ pc[t][1] \in JoinMethods /\ pc[t][2] = "called"
                 /\ detachstate = "JOINABLE" /\ ~running /\ pc'[t] # pc[t]
                 => pc'[t] = <<"ret", "JOIN_NOT_STARTED">> /\ UNCHANGED tvars]_vars

\* the second join: the thread was joined and a join variant has thrown
C20_Witness ==
    /\ detachstate = "JOINABLE" /\ ~running
    /\ thread_id # 0 /\ native[thread_id].state = "joined"
    /\ \E t \in TCallers : pc[t] = <<"ret", "JOIN_NOT_STARTED">>

\* C21: a join variant that fails leaves the Thread joinable.  try_join() on a
\* thread that has not terminated returns false, and it always has its step to
\* take; timed_join() whose deadline comes before the thread has terminated
\* returns false.  Neither changes a field of the Thread, and a running
\* joinable Thread names a native thread that can still be joined.
C21_FailedJoinKeepsThread ==
    /\ [](\A t \in TCallers :
              pc[t] = <<"try_join", "native">> => ENABLED Thread_try_join_native(t))
    /\ [](running /\ detachstate = "JOINABLE"
              => /\ native[thread_id].state \in {"running", "terminated"}
                 /\ ~native[thread_id].detached)
    /\ [][\A t \in TCallers :
            pc[t][1] \in {"try_join", "timed_join"} /\ pc[t][2] = "native"
               /\ native[thread_id].state = "running" /\ pc'[t] # pc[t]
               => pc'[t] = <<"ret", "false">> /\ UNCHANGED tvars]_vars

\* try_join() or timed_join() has returned false on a running joinable Thread
C21_Witness ==
    /\ running /\ detachstate = "JOINABLE" /\ native[thread_id].state = "running"
    /\ \E t \in TCallers : pc[t] = <<"ret", "false">>

\* C22: detach().  On a Thread whose detachstate is DETACHED it throws
\* DETACH_DETACHED, running or not; on a joinable Thread that is not running
\* it throws DETACH_STOPPED; both change nothing.  Otherwise it detaches the
\* native thread and sets detachstate to DETACHED, leaving the other fields
\* alone.  No step sets a detachstate of DETACHED back to JOINABLE.
C22_Detach ==
    /\ [][detachstate = "DETACHED" => detachstate' = "DETACHED"]_vars
    /\ [][\A t \in TCallers :
            pc[t] = <<"detach", "called">> /\ pc'[t] # pc[t]
               => IF detachstate = "DETACHED"
                  THEN pc'[t] = <<"ret", "DETACH_DETACHED">> /\ UNCHANGED tvars
                  ELSE IF ~running
                  THEN pc'[t] = <<"ret", "DETACH_STOPPED">> /\ UNCHANGED tvars
                  ELSE /\ pc'[t] = <<"ret", "ok">>
                       /\ detachstate' = "DETACHED"
                       /\ native'[thread_id].detached
                       /\ UNCHANGED <<thread_id, running, attributes, created>>]_vars

\* a Thread constructed detached and never started was asked to detach
C22_Witness ==
    /\ detachstate = "DETACHED" /\ ~running /\ created = 0
    /\ \E t \in TCallers : pc[t] = <<"ret", "DETACH_DETACHED">>

C24_SendSignal ==
    [][\A t \in TCallers :
         pc[t] = <<"send_signal", "called">> /\ pc'[t] # pc[t]
            => /\ UNCHANGED <<running, detachstate>>
               /\ ~running
                    => /\ ErrorKind(pc'[t][2]) = ErrorKind("JOIN_NOT_STARTED")
                       /\ ErrorKind(pc'[t][2]) = ErrorKind("CANCEL_STOPPED")
                       /\ ErrorKind(pc'[t][2]) = ErrorKind("DETACH_STOPPED")
                       /\ UNCHANGED tvars
               /\ running /\ native[thread_id].state = "running"
                    => pc'[t] = <<"ret", "ok">> /\ native'[thread_id].signalled]_vars

\* C25: a timeout is a result that leaves the bookkeeping alone.  A
\* timedwait() whose native wait ran into the deadline returns false, and its
\* closing `thread_queue--` takes exactly the caller's own unit out of
\* thread_queue, so that thread_queue is again what it was before the call
\* counted the caller in; current_value, the native value and every thread's
\* holder entry are as they were.
C25_TimeoutKeepsBookkeeping ==
    [][\A t \in SThreads :
         pc[t] = <<"timedwait", "timeout_q_dec">> /\ pc'[t] # pc[t]
            => /\ pc'[t] = <<"ret", "false">>
               /\ thread_queue' = UnsignedDec(thread_queue)
               /\ UNCHANGED <<current_value, sem, locking_threads>>]_vars

\* =========================================================================
\*                       pthread_timeout: the deadline
\* =========================================================================
\* One caller computes the deadline of one timed operation: the duration is
\* its argument, the clock reading is what gettimeofday returns to it.

\* a call of pthread_timeout(time), as Mutex::timedlock, Condition::wait(time),
\* Semaphore::timedwait and RW_Lock::rd_timedlock/wr_timedlock make it
pthread_timeout_call(t) ==
    /\ pc[t] = <<"ret", "none">>
    /\ IF ValidTimespec(time)
       THEN /\ timeout_time' = pthread_timeout(time, current_time)
            /\ Goto(t, "pthread_timeout", "returned")
       ELSE /\ Return(t, "invalid_argument")
            /\ UNCHANGED timeout_time
    /\ UNCHANGED <<reg, mvars, cvars, svars, rvars, tvars, time, current_time>>

\* Thread::timed_join(time) on a running joinable Thread, from `// verify time`
\* to the deadline it hands to pthread_timedjoin_np
Thread_timed_join_deadline(t) ==
    /\ pc[t] = <<"ret", "none">>
    /\ IF ValidTimespec(time)
       THEN /\ timeout_time' = Thread_timed_join_timeout_time(time, current_time)
            /\ Goto(t, "timed_join", "deadline")
       ELSE /\ Return(t, "invalid_argument")
            /\ UNCHANGED timeout_time
    /\ UNCHANGED <<reg, mvars, cvars, svars, rvars, tvars, time, current_time>>

InitTimeout ==
    /\ InitThreads(TCallers)
    /\ InitMutex
    /\ InitCondition
    /\ InitSemaphore(0)
    /\ InitRW_Lock
    /\ InitThread("JOINABLE")
    /\ time \in Timespecs
    /\ current_time \in Timevals
    /\ timeout_time = NoTimespec

NextTimeout ==
    \E t \in TCallers :
        \/ pthread_timeout_call(t)
        \/ Thread_timed_join_deadline(t)

SpecTimeout == InitTimeout /\ [][NextTimeout]_vars

\* ------------------------------------------------------ deadline: properties

\* the deadline has been computed from time and current_time
Computed(t) == pc[t] \in {<<"pthread_timeout", "returned">>, <<"timed_join", "deadline">>}

\* timeout_time is current_time + time: tv_nsec is in range, and with the
\* carry c out of the nanoseconds, tv_sec is the sum of the seconds plus c
ExactDeadline ==
    /\ 0 <= timeout_time.tv_nsec /\ timeout_time.tv_nsec < NSEC_PER_SEC
    /\ timeout_time.tv_sec >= time.tv_sec
    /\ \E c \in {0, 1} :
          /\ timeout_time.tv_sec - time.tv_sec = current_time.tv_sec + c
          /\ c * NSEC_PER_SEC + timeout_time.tv_nsec
                = time.tv_nsec + current_time.tv_usec * NSEC_PER_USEC

\* C27: for every duration with tv_sec >= 0 and 0 <= tv_nsec < NSEC_PER_SEC and
\* every clock reading with 0 <= tv_usec < 1000000, the deadline pthread_timeout
\* returns has its tv_nsec in [0, NSEC_PER_SEC) and is, in total, the clock
\* reading plus the duration; the computation in Thread::timed_join gives the
\* same deadline for the same inputs.
C27_Deadline ==
    \A t \in TCallers :
        Computed(t)
            => /\ ExactDeadline
               /\ pthread_timeout(time, current_time)
                     = Thread_timed_join_timeout_time(time, current_time)

\* =========================================================================
\*                 the timed operations and their argument
\* =========================================================================
\* One caller calls the timed operations of the five classes with the argument
\* time, in range or not.  The objects are fresh (h = NoThread), or in use by
\* the caller itself (h = 1: it owns the Mutex and the write lock and holds a
\* unit of the Semaphore), or in use by the other threads (h = 2); the Thread
\* object is joinable or detached, started or not.

InitTimed ==
    /\ InitThreads(TCallers)
    /\ InitCondition
    /\ time \in Timespecs
    /\ current_time = [tv_sec |-> 0, tv_usec |-> 0]
    /\ timeout_time = NoTimespec
    /\ \E h \in {NoThread, 1, 2} :
          LET H == IF h = NoThread THEN {}
                   ELSE IF h \in TCallers THEN {h} ELSE SThreads \ TCallers
          IN  /\ mutex = h
              /\ lock_thread = h
              /\ locked = (h # NoThread)
              /\ holds = [t \in MThreads |-> t = h]
              /\ counter = 0
              /\ tmp = [t \in MThreads |-> 0]
              /\ iters = [t \in MThreads |-> 0]
              /\ sem = SemMaxValue - Cardinality(H)
              /\ locking_threads = [t \in SThreads |-> IF t \in H THEN "true" ELSE NoEntry]
              /\ map_seen = [t \in SThreads |-> {}]
              /\ current_value = Cardinality(H)
              /\ thread_queue = 0
              /\ permit = [t \in SThreads |-> t \in H]
              /\ rw_lock = [w |-> h, r |-> {}]
              /\ read_locked = 0
              /\ write_locked = (h # NoThread)
              /\ rdheld = [t \in RThreads |-> FALSE]
              /\ wrheld = [t \in RThreads |-> t = h]
    /\ \E d \in {"JOINABLE", "DETACHED"}, started \in BOOLEAN :
          /\ thread_id = IF started THEN 1 ELSE 0
          /\ running = started
          /\ detachstate = d
          /\ attributes = d
          /\ created = IF started THEN 1 ELSE 0
          /\ native = [i \in 1..MaxStarts |->
                         IF started /\ i = 1
                         THEN [NoNative EXCEPT !.state = "running",
                                               !.detached = (d = "DETACHED")]
                         ELSE NoNative]

NextTimed ==
    \/ \E t \in TCallers :
          \/ Mutex_timedlock(t)
          \/ Condition_lock(t, "timedwait")
          \/ Condition_wait_inc(t, "timedwait")
          \/ Condition_timedwait_deadline(t)
          \/ Condition_timedwait_timedout(t)
          \/ pc[t] = <<"timedwait", "exit_timedout">> /\ Condition_exit(t, "timedwait", "false")
          \/ Semaphore_timedwait(t)
          \/ Semaphore_acquired(t)
          \/ RW_Lock_rd_timedlock(t)
          \/ RW_Lock_wr_timedlock(t)
          \/ RW_Lock_acquired(t)
          \/ Thread_call(t, "timed_join")
          \/ Thread_timed_join(t)
    \/ \E i \in 1..MaxStarts : Native_exit(i)

SpecTimed == InitTimed /\ [][NextTimed]_vars

\* ------------------------------------------- timed operations: properties

\* the threads with the entry true in locking_threads
HolderSet == {t \in SThreads : locking_threads[t] = "true"}

\* the misuse error r of a timed operation is due: its test comes before the
\* test of the duration
MisuseApplies(t, r) ==
    \/ r = "DoubleLock" /\ locked /\ lock_thread = t
    \/ r = "DoubleWait" /\ locking_threads[t] = "true"
    \/ r = "JOIN_DETACHED" /\ detachstate = "DETACHED"
    \/ r = "JOIN_NOT_STARTED" /\ detachstate # "DETACHED" /\ ~running

\* C26: a timed operation called with a duration out of range (tv_sec < 0,
\* tv_nsec < 0 or tv_nsec >= NSEC_PER_SEC) throws invalid_argument, unless a
\* misuse error is due before; up to there the caller stays in front of the
\* native blocking call, takes no native lock and changes none of
\* waiting_thread_count, thread_queue, current_value, the holder entries,
\* locked, lock_thread, read_locked, write_locked and running.
C26_InvalidDuration ==
    [][~ValidTimespec(time)
         => /\ UNCHANGED <<waiting_thread_count, thread_queue, current_value,
                           locked, lock_thread, read_locked, write_locked, running>>
            /\ HolderSet' = HolderSet
            /\ UNCHANGED <<mutex, cond_mutex, sem, rw_lock>>
            /\ \A t \in TCallers :
                  pc'[t] # pc[t]
                     => IF pc'[t][1] = "ret"
                        THEN \/ pc'[t][2] = "invalid_argument"
                             \/ MisuseApplies(t, pc'[t][2])
                        ELSE pc'[t] \in {<<"timedlock", "chk_owner">>,
                                         <<"timedlock", "native">>,
                                         <<"timed_join", "called">>}]_vars

\* a duration with tv_nsec = NSEC_PER_SEC was refused on objects that other
\* threads hold, after a running joinable Thread had refused it too
C26_Witness ==
    \E t \in TCallers :
        /\ time.tv_sec >= 0 /\ time.tv_nsec = NSEC_PER_SEC
        /\ pc[t] = <<"ret", "invalid_argument">>
        /\ mutex \notin {NoThread, t} /\ sem = 0 /\ rw_lock.w \notin {NoThread, t}
        /\ running /\ detachstate = "JOINABLE"

\* ------------------------------------------- Mutex destructor: properties

\* C28: destruction of a Mutex that is still locked.  The destructor tries one
\* unlock(); when that throws a logic error, because the destroying thread is
\* not lock_thread, the error is only logged: the destructor goes on, and the
\* destruction ends without terminating the process.
C28_DestructorLogicError ==
    [][\A t \in MThreads :
         /\ AtRest(t) /\ pc'[t][1] = "~Mutex" /\ locked /\ lock_thread # t
               => pc'[t] = <<"~Mutex", "destroy_logged">> /\ UNCHANGED mvars
         /\ pc[t] = <<"~Mutex", "destroy_logged">> /\ pc'[t] # pc[t]
               => pc'[t] = <<"~Mutex", "destroyed">>]_vars

\* C29: owner tracking never misreports.  Whenever is_locked() is true (locked
\* is true), a thread holds the native mutex and lock_thread is that thread:
\* unlock() clears locked before the native release, and the lock variants set
\* lock_thread and then locked only after the native acquire, so locked is never
\* true with the previous owner recorded once another thread has acquired.
\* When the native release fails, locked is true again, the mutex is still its
\* owner's, and the caller gets a SystemError.
C29_OwnerTracking ==
    /\ [](locked => mutex # NoThread /\ lock_thread = mutex)
    /\ [][\A t \in MThreads :
            pc[t] = <<"unlock", "native">> /\ pc'[t] = <<"ret", "SystemError">>
               => locked' /\ lock_thread' = t /\ mutex' = t /\ mutex = t]_vars

\* the native release of a has failed while b waits in lock(): a is back as
\* the owner of a locked Mutex
C29_Witness ==
    \E a, b \in MThreads :
        /\ a # b
        /\ pc[a] = <<"ret", "SystemError">> /\ locked /\ lock_thread = a /\ mutex = a
        /\ pc[b] = <<"lock", "native">>

\* C30: the bookkeeping of RW_Lock::unlock.  The unlock() of the writer sets
\* write_locked to false and leaves read_locked alone; the unlock() of a reader
\* takes exactly one off read_locked and leaves write_locked alone; the field
\* is changed before the native unlock, which changes neither; and when the
\* native unlock fails the field gets back what the unlock() took from it
\* (write_locked is true again, read_locked is one more again) and the caller
\* gets a SystemError.
C30_UnlockBookkeeping ==
    [][\A t \in RThreads :
         /\ pc[t] = <<"unlock", "clear">> /\ pc'[t] # pc[t]
               => ~write_locked' /\ UNCHANGED read_locked
         /\ pc[t] = <<"unlock", "dec_store">> /\ pc'[t] # pc[t]
               => read_locked' = UnsignedDec(read_locked) /\ UNCHANGED write_locked
         /\ pc[t][1] = "unlock" /\ pc'[t] = <<"ret", "ok">>
               => UNCHANGED <<read_locked, write_locked>>
         /\ pc[t] = <<"unlock", "native_w">> /\ pc'[t] = <<"ret", "SystemError">>
               => write_locked' /\ UNCHANGED read_locked
         /\ pc[t] = <<"unlock", "restore">> /\ pc'[t] = <<"ret", "SystemError">>
               => read_locked' = UnsignedInc(read_locked) /\ UNCHANGED write_locked]_vars

\* ------------------------------------------------ Semaphore: the accounting

\* the threads between the store of their `thread_queue++` and the store of
\* their `thread_queue--`
Queued ==
    {t \in SThreads :
        \/ pc[t][1] \in AcquireMethods /\ pc[t][2] = "native"
        \/ pc[t][1] = "acquired"
        \/ pc[t] \in {<<"timedwait", "timeout_q_load">>, <<"timedwait", "timeout_q_dec">>}}

\* C31: accounting of thread_queue.  In every reachable state thread_queue is
\* the number of threads that have incremented it in wait(), trywait() or
\* timedwait() and not yet decremented it, and it is 0 whenever no thread is
\* inside an acquire call.
C31_QueueAccounting ==
    /\ thread_queue = Cardinality(Queued)
    /\ (\A t \in SThreads : pc[t][1] \notin AcquireMethods \cup {"acquired"})
          => thread_queue = 0

\* ------------------------------------------------ Condition: signals counted

\* the history of a run that counts: the signal() calls that have returned true
\* and the wait() calls that have returned true
NoCount == [kind |-> "count", signals |-> 0, released |-> 0]

InitCSignals ==
    /\ InitThreads(CThreads)
    /\ InitMutex
    /\ cond_mutex = NoThread
    /\ signal_created = FALSE
    /\ waiting_thread_count = 0
    /\ wakeup_by_brodcast = FALSE
    /\ scn = NoCount
    /\ InitSemaphore(0)
    /\ InitRW_Lock
    /\ InitThread("JOINABLE")
    /\ NoTimeout

\* wait() and signal() alone; signal() is called until MaxSignals of the
\* calls have returned true
NextCSignals ==
    \E t \in CThreads :
        \/ Condition_wait(t)
        \/ scn.signals < MaxSignals /\ Condition_lock(t, "signal")
        \/ Condition_signal_body(t)

FairSpecCondSignals ==
    /\ InitCSignals
    /\ [][NextCSignals]_vars
    /\ \A t \in CThreads : WF_vars(CondProgress(t))

\* C32: no successful signal is lost.  With wait() and signal() alone, the
\* number of wait() calls that return true comes to equal, and stays equal to,
\* the number of signal() calls that have returned true.
C32_NoSignalLost == <>[](scn.released = scn.signals)

\* --------------------------------------------- Condition: the timed-out wait

\* C33: a wait(time) that times out consumes no signal.  The caller that has
\* come back from pthread_cond_timedwait with ETIMEDOUT holds the embedded
\* mutex; when it returns false, signal_created and wakeup_by_brodcast are as
\* it found them when it got the mutex back.
C33_TimeoutKeepsSignal ==
    [][\A t \in CThreads :
         pc[t] = <<"timedwait", "exit_timedout">> /\ pc'[t] = <<"ret", "false">>
            => UNCHANGED <<signal_created, wakeup_by_brodcast>>]_vars

\* ------------------------------------------ Condition: broadcast, disturbed

\* a broadcast() holds the embedded mutex and is about to run
Broadcasting == \E b \in CThreads : pc[b] = <<"broadcast", "locked">>

\* C34: a broadcast releases every thread that is blocked in wait() when it
\* runs, whatever signal(), broadcast() or wait() call follows it: each of
\* them comes to return true.  And a wait() that starts after the broadcast
\* is not released by it: while the broadcast is the last signal given, the
\* wait() calls that leave their loop are calls the broadcast found waiting.
C34_BroadcastDisturbed ==
    /\ [](scn.kind = "broadcast"
            => \A t \in CThreads : pc[t] = <<"wait", "exit">> => t \in scn.S)
    /\ \A t \in CThreads :
          (Broadcasting /\ pc[t][1] = "wait" /\ Parked(t)) ~> (pc[t] = <<"ret", "true">>)

C36_HolderCanUnlock ==
    /\ \A t \in RThreads : pc[t] # <<"ret", "NotLocked">>
    /\ read_locked >= 0
    /\ (\A t \in RThreads : AtRest(t) /\ ~NativeHolds(t))
          => /\ read_locked = 0
             /\ ~write_locked
             /\ rw_lock.w = NoThread /\ rw_lock.r = {}

\* ------------------------------------------------- Mutex: no false reports

\* C37: no false misuse reports of the Mutex.  The reads of locked and of
\* lock_thread being steps of their own, a thread that does not hold the
\* Mutex never gets DoubleLock from lock(), trylock() or timedlock(), and the
\* thread that holds it (its lock call has returned) never gets NotLocked or
\* OwnerMismatch from unlock().
C37_NoFalseReports ==
    [][\A t \in MThreads :
         /\ pc'[t] = <<"ret", "DoubleLock">> /\ pc'[t] # pc[t] => holds[t]
         /\ pc'[t] \in {<<"ret", "NotLocked">>, <<"ret", "OwnerMismatch">>} /\ pc'[t] # pc[t]
               => ~holds[t]]_vars

\* thread t, not the holder, has read locked as true in lock(); before it
\* reads lock_thread the holder u has released the Mutex, and u's unlock()
\* has returned without a report
C37_Witness ==
    \E t, u \in MThreads :
        /\ t # u
        /\ pc[t] = <<"lock", "chk_owner">> /\ ~holds[t]
        /\ ~locked /\ lock_thread = u /\ mutex = NoThread
        /\ pc[u] = <<"ret", "ok">> /\ ~holds[u]

\* ------------------------------------------------ Semaphore: permits counted

\* C38: current_value counts the held permits.  In every state in which no
\* thread is inside wait(), trywait(), timedwait() or post(), the state right
\* after construction being one of them, current_value is the number of
\* threads whose locking_threads entry is true: 0 after construction.
C38_ValueCountsPermits ==
    (\A t \in SThreads : AtRest(t))
        => current_value = Cardinality({t \in SThreads : locking_threads[t] = "true"})

\* ------------------------------------------- native calls that fail: sysexcept

\* sem_wait / sem_timedwait return -1 with an errno other than the one the
\* method handles (EINTR: a signal handler has interrupted the call); the
\* semaphore is as it was, and sysexcept throws std::system_error
Semaphore_native_fails(t) ==
    /\ pc[t][1] \in AcquireMethods
    /\ pc[t][2] = "native"
    /\ Return(t, "SystemError")
    /\ UNCHANGED <<sframe, reg, svars>>

\* pthread_cond_wait returns non-zero: the error is found before anything is
\* done, the caller still holds the mutex, and sysexcept throws
\* std::system_error.  The call is the first one of the loop, after
\* `waiting_thread_count++;`, or a later one, after a wakeup that found
\* signal_created false.
Condition_wait_fails(t) ==
    /\ ~signal_created
    /\ \/ /\ pc[t] = <<"wait", "locked">>
          /\ waiting_thread_count' = waiting_thread_count + 1
          /\ UNCHANGED cond_mutex
       \/ /\ pc[t] = <<"wait", "woken">>
          /\ cond_mutex = NoThread
          /\ cond_mutex' = t
          /\ UNCHANGED waiting_thread_count
    /\ Return(t, "SystemError")
    /\ UNCHANGED <<cframe, signal_created, wakeup_by_brodcast, scn>>

\* threads that use a Semaphore and wait on a Condition, with native calls
\* that may fail
NextSys ==
    \E t \in SThreads :
        \/ Semaphore_wait(t)
        \/ Semaphore_trywait(t)
        \/ Semaphore_timedwait(t)
        \/ Semaphore_acquired(t)
        \/ Semaphore_post(t)
        \/ Semaphore_native_fails(t)
        \/ Condition_lock(t, "wait")
        \/ Condition_wait_inc(t, "wait")
        \/ Condition_spurious(t, "wait")
        \/ Condition_wait_woken(t, "wait")
        \/ Condition_wait_fails(t)

SpecSys == InitS /\ [][NextSys]_vars

\* C39: an operation that fails with SystemError leaves the state as it was.
\* When the native call inside wait(), trywait() or timedwait() of the
\* Semaphore fails, current_value and the caller's locking_threads entry are
\* not touched, and thread_queue is as before the call: 0 again when no other
\* thread has ever called.  When the native call inside Condition::wait fails,
\* waiting_thread_count is as before the call, the number of threads inside
\* wait() past their increment, and the failing thread does not keep the
\* embedded mutex.
C39_FailureKeepsState ==
    /\ [][\A t \in SThreads :
            pc[t][1] \in AcquireMethods /\ pc[t][2] = "native" /\ pc'[t] = <<"ret", "SystemError">>
               => /\ UNCHANGED current_value
                  /\ locking_threads'[t] # "true"]_vars
    /\ [](\A t \in SThreads :
             (pc[t] = <<"ret", "SystemError">>
                /\ \A u \in SThreads \ {t} : pc[u] = <<"ret", "none">>)
             => thread_queue = 0)
    /\ [](waiting_thread_count = Cardinality({u \in SThreads : Counted(u)}))
    /\ [](\A t \in SThreads : pc[t] = <<"ret", "SystemError">> => cond_mutex # t)

\* ------------------------------------------------ Thread: the native threads

\* the native thread i has been joined or detached: nothing is left to join
Reaped(i) == native[i].state = "joined" \/ native[i].detached

\* C40: a Thread never loses an unjoined native thread.  start() succeeds only
\* when every native thread created through the object before has been joined
\* or detached, so thread_id is never overwritten while it names a thread
\* that has been neither joined nor detached.
C40_NoThreadLost ==
    [][/\ \A t \in TCallers :
             pc[t][1] = "start" /\ pc'[t] = <<"ret", "ok">>
                => \A i \in 1..created : Reaped(i)
       /\ thread_id' # thread_id /\ thread_id # 0 => Reaped(thread_id)]_vars

====
